---- MODULE Spec2Model ----
(***************************************************************************)
(* Verification model of the ProveIt proof-graph layer                     *)
(* (crates/geometry: ConstructionGraph, ProofPath, ProofBridge), of the    *)
(* interactive proof state (crates/proof-engine: ProofState) and of the    *)
(* sctt-core kernel: eval, conv, normalize, infer/check and the Kan         *)
(* operations comp and hcomp.                                              *)
(***************************************************************************)
EXTENDS Integers, Sequences, FiniteSets, TLC

VARIABLES
    points,         \* ConstructionGraph.points   : PointId -> proposition
    lines,          \* ConstructionGraph.lines    : LineId  -> [from, to, proof_term]
    outgoing,       \* ConstructionGraph.outgoing : PointId -> Seq(LineId)
    incoming,       \* ConstructionGraph.incoming : PointId -> Seq(LineId)
    next_point_id,  \* ConstructionGraph.next_point_id
    next_line_id,   \* ConstructionGraph.next_line_id
    gcall,          \* the last graph call: operation, arguments, result
    goals,          \* ProofState.goals       : open goals, current goal first
    completed,      \* ProofState.completed   : closed goals
    history,        \* ProofState.history     : Seq of ProofSnapshot
    history_pos,    \* ProofState.history_pos : the cursor into history
    next_goal_id,   \* ProofState.next_goal_id : the id new_goal_id hands out next
    ptrace,         \* the last ProofState calls (operation, result), oldest first
    pre_op,         \* open and completed goals before the last mutating call
    post_op,        \* open and completed goals after the last mutating call
    context,        \* ProofBridge.context.types (the env is derived from it)
    geo_points,     \* ProofBridge.geo_to_proof.points : PointId -> proposition
    geo_lines,      \* ProofBridge.geo_to_proof.lines  : LineId  -> proof term
    bcall,          \* the last bridge call: operation, arguments, result
    kin,            \* the kernel call under test: operation and arguments
    kout,           \* its result: <<>> before the call, <<result>> after it
    search          \* the locals of a running ProofSearch::search call

gvars == <<points, lines, outgoing, incoming, next_point_id, next_line_id, gcall>>

pvars == <<goals, completed, history, history_pos, next_goal_id, ptrace, pre_op, post_op>>

bvars == <<context, geo_points, geo_lines, bcall>>

kvars == <<kin, kout, search>>

vars == <<points, lines, outgoing, incoming, next_point_id, next_line_id, gcall,
          goals, completed, history, history_pos, next_goal_id, ptrace, pre_op,
          post_op, context, geo_points, geo_lines, bcall, kin, kout, search>>

(***************************************************************************)
(* Bounds                                                                  *)
(***************************************************************************)
MaxPoints == 3      \* add_point is called while next_point_id < MaxPoints
MaxLines == 3       \* add_line allocates an id while next_line_id < MaxLines
MaxHistory == 2     \* a mutating ProofState call is made while history_pos < MaxHistory
MaxSubgoals == 1    \* replace_goal is given at most MaxSubgoals subgoals
MaxGoalId == 2      \* the goals handed to ProofState have ids below MaxGoalId
TraceLen == 3       \* ptrace keeps the last TraceLen calls
GraphMaxLines == 2  \* the path and verify queries are made on graphs of at most GraphMaxLines line ids
MaxCtx == 2         \* a context or environment binds at most MaxCtx variables
MaxFaces == 2       \* a face system has at most MaxFaces faces
MaxDimVar == 1      \* the dimension variables are DimVar(0..MaxDimVar)
BridgeMaxLines == 2 \* the bridge is driven on graphs of at most BridgeMaxLines line ids
MaxLevel == 1       \* the propositions registered with the bridge are Type(0..MaxLevel)
MaxHyps == 2        \* a goal handed to a tactic has at most MaxHyps hypotheses
MaxSearchDepth == 3 \* ProofSearch is run with max_depth in 0..MaxSearchDepth

PointIds == 0 .. (MaxPoints - 1)
LineIds == 0 .. (MaxLines - 1)

(***************************************************************************)
(* Expressions (sctt-core syntax.rs), the fragment the graph layer uses    *)
(***************************************************************************)
EType(l) == [tag |-> "Type", level |-> l]
EVar(i) == [tag |-> "Var", idx |-> i]
ELambda(b) == [tag |-> "Lambda", body |-> b]
EApp(f, a) == [tag |-> "App", func |-> f, arg |-> a]
EPi(d, c) == [tag |-> "Pi", domain |-> d, codomain |-> c]
EPath(ty, l, r) == [tag |-> "Path", ty |-> ty, left |-> l, right |-> r]
EPathLam(dim, b) == [tag |-> "PathLam", dim |-> dim, body |-> b]
EPathApp(path, dim) == [tag |-> "PathApp", path |-> path, dim |-> dim]
ESmoothPath(k, ty, l, r) ==
    [tag |-> "SmoothPath", order |-> k, ty |-> ty, left |-> l, right |-> r]
\* faces: a sequence of [face, expr]
EComp(ty, base, faces) == [tag |-> "Comp", ty |-> ty, base |-> base, faces |-> faces]
EHComp(ty, base, faces) == [tag |-> "HComp", ty |-> ty, base |-> base, faces |-> faces]

\* the propositions and proof terms the graph tests insert
GraphProps == {EType(0)}
GraphTerms == {EVar(0)}

(***************************************************************************)
(* Small helpers                                                           *)
(***************************************************************************)
Max2(a, b) == IF a >= b THEN a ELSE b

Pop(s) == IF s = <<>> THEN s ELSE SubSeq(s, 1, Len(s) - 1)

RECURSIVE Reverse(_)
Reverse(s) == IF s = <<>> THEN <<>> ELSE Append(Reverse(Tail(s)), Head(s))

Range(f) == {f[x] : x \in DOMAIN f}

\* HashMap::get on the adjacency maps: None is read as an empty edge list
EdgesOf(adj, p) == IF p \in DOMAIN adj THEN adj[p] ELSE <<>>

GCall(op, a, b, result, value) ==
    [op |-> op, a |-> a, b |-> b, result |-> result, value |-> value]

(***************************************************************************)
(* ConstructionGraph::has_cycle_dfs                                        *)
(* L is self.lines, O is self.outgoing, new_line is -1 for None.           *)
(* The result carries the two HashSets, which the callers share.           *)
(***************************************************************************)
RECURSIVE has_cycle_dfs(_, _, _, _, _, _)
RECURSIVE dfs_edges(_, _, _, _, _, _)

dfs_edges(L, O, edges, visited, rec_stack, new_line) ==
    IF edges = <<>> THEN [cyc |-> FALSE, visited |-> visited, rec_stack |-> rec_stack]
    ELSE IF Head(edges) \in DOMAIN L
         THEN LET r == has_cycle_dfs(L, O, L[Head(edges)].to, visited, rec_stack, new_line)
              IN IF r.cyc THEN r
                 ELSE dfs_edges(L, O, Tail(edges), r.visited, r.rec_stack, new_line)
         ELSE dfs_edges(L, O, Tail(edges), visited, rec_stack, new_line)

has_cycle_dfs_keep_stack(L, O, point, visited, rec_stack, new_line) ==
    IF point \in rec_stack
    THEN [cyc |-> TRUE, visited |-> visited, rec_stack |-> rec_stack]
    ELSE IF point \in visited
    THEN [cyc |-> FALSE, visited |-> visited, rec_stack |-> rec_stack]
    ELSE LET r1 == dfs_edges(L, O, EdgesOf(O, point), visited \cup {point},
                             rec_stack \cup {point}, new_line)
         IN IF r1.cyc THEN r1
            ELSE LET r2 == IF new_line \in DOMAIN L /\ L[new_line].from = point
                           THEN has_cycle_dfs(L, O, L[new_line].to, r1.visited,
                                              r1.rec_stack, new_line)
                           ELSE r1
                 IN r2

has_cycle_dfs(L, O, point, visited, rec_stack, new_line) ==
    IF point \in rec_stack
    THEN [cyc |-> TRUE, visited |-> visited, rec_stack |-> rec_stack]
    ELSE IF point \in visited
    THEN [cyc |-> FALSE, visited |-> visited, rec_stack |-> rec_stack]
    ELSE LET r1 == dfs_edges(L, O, EdgesOf(O, point), visited \cup {point},
                             rec_stack \cup {point}, new_line)
         IN IF r1.cyc THEN r1
            ELSE LET r2 == IF new_line \in DOMAIN L /\ L[new_line].from = point
                           THEN has_cycle_dfs(L, O, L[new_line].to, r1.visited,
                                              r1.rec_stack, new_line)
                           ELSE r1
                 IN IF r2.cyc THEN r2
                    ELSE [cyc |-> FALSE, visited |-> r2.visited,
                          rec_stack |-> r2.rec_stack \ {point}]

\* ConstructionGraph::has_cycle_after_adding: fresh sets, DFS from line.to
has_cycle_after_adding(L, O, line_id, to) ==
    has_cycle_dfs(L, O, to, {}, {}, line_id).cyc

(***************************************************************************)
(* ConstructionGraph::new                                                  *)
(***************************************************************************)
GraphInit ==
    /\ points = << >>
    /\ lines = << >>
    /\ outgoing = << >>
    /\ incoming = << >>
    /\ next_point_id = 0
    /\ next_line_id = 0
    /\ gcall = GCall("new", -1, -1, "Ok", <<>>)

(***************************************************************************)
(* ConstructionGraph::add_point                                            *)
(***************************************************************************)
AddPoint(prop) ==
    /\ next_point_id < MaxPoints
    /\ LET id == next_point_id
       IN /\ next_point_id' = id + 1
          /\ points' = points @@ (id :> prop)
          /\ outgoing' = [p \in DOMAIN outgoing \cup {id} |-> IF p = id THEN <<>> ELSE outgoing[p]]
          /\ incoming' = [p \in DOMAIN incoming \cup {id} |-> IF p = id THEN <<>> ELSE incoming[p]]
          /\ gcall' = GCall("add_point", -1, -1, "Ok", <<id>>)
    /\ UNCHANGED <<lines, next_line_id>>
    /\ UNCHANGED <<pvars, bvars, kvars>>

(***************************************************************************)
(* ConstructionGraph::add_line                                             *)
(***************************************************************************)
\* add_line without the test of the target endpoint: entry(to).or_default()
\* then creates the incoming list of the unknown point
AddLine_check_source_only(from, to, term) ==
    /\ UNCHANGED <<pvars, bvars, kvars>>
    /\ IF from \notin DOMAIN points
       THEN /\ gcall' = GCall("add_line", from, to, "InvalidConstruction", <<>>)
            /\ UNCHANGED <<points, lines, outgoing, incoming, next_point_id, next_line_id>>
       ELSE /\ next_line_id < MaxLines
            /\ LET id == next_line_id
                   out1 == [outgoing EXCEPT ![from] = Append(@, id)]
                   in1 == [p \in DOMAIN incoming \cup {to} |->
                              IF p = to THEN Append(EdgesOf(incoming, p), id) ELSE incoming[p]]
               IN /\ next_line_id' = id + 1
                  /\ IF has_cycle_after_adding(lines, out1, id, to)
                     THEN /\ outgoing' = [out1 EXCEPT ![from] = Pop(@)]
                          /\ incoming' = [in1 EXCEPT ![to] = Pop(@)]
                          /\ lines' = lines
                          /\ gcall' = GCall("add_line", from, to, "DependencyCycle", <<>>)
                     ELSE /\ outgoing' = out1
                          /\ incoming' = in1
                          /\ lines' = lines @@ (id :> [from |-> from, to |-> to, proof_term |-> term])
                          /\ gcall' = GCall("add_line", from, to, "Ok", <<id>>)
            /\ UNCHANGED <<points, next_point_id>>

\* add_line without the rollback of the adjacency lists on a detected cycle
AddLine_no_rollback(from, to, term) ==
    /\ UNCHANGED <<pvars, bvars, kvars>>
    /\ IF from \notin DOMAIN points \/ to \notin DOMAIN points
       THEN /\ gcall' = GCall("add_line", from, to, "InvalidConstruction", <<>>)
            /\ UNCHANGED <<points, lines, outgoing, incoming, next_point_id, next_line_id>>
       ELSE /\ next_line_id < MaxLines
            /\ LET id == next_line_id
                   out1 == [outgoing EXCEPT ![from] = Append(@, id)]
                   in1 == [incoming EXCEPT ![to] = Append(@, id)]
               IN /\ next_line_id' = id + 1
                  /\ outgoing' = out1
                  /\ incoming' = in1
                  /\ IF has_cycle_after_adding(lines, out1, id, to)
                     THEN /\ lines' = lines
                          /\ gcall' = GCall("add_line", from, to, "DependencyCycle", <<>>)
                     ELSE /\ lines' = lines @@ (id :> [from |-> from, to |-> to, proof_term |-> term])
                          /\ gcall' = GCall("add_line", from, to, "Ok", <<id>>)
            /\ UNCHANGED <<points, next_point_id>>

AddLine(from, to, term) ==
    /\ UNCHANGED <<pvars, bvars, kvars>>
    /\ IF from \notin DOMAIN points \/ to \notin DOMAIN points
       THEN /\ gcall' = GCall("add_line", from, to, "InvalidConstruction", <<>>)
            /\ UNCHANGED <<points, lines, outgoing, incoming, next_point_id, next_line_id>>
       ELSE /\ next_line_id < MaxLines
            /\ LET id == next_line_id
                   out1 == [outgoing EXCEPT ![from] = Append(@, id)]
                   in1 == [incoming EXCEPT ![to] = Append(@, id)]
               IN /\ next_line_id' = id + 1
                  /\ IF has_cycle_after_adding(lines, out1, id, to)
                     THEN /\ outgoing' = [out1 EXCEPT ![from] = Pop(@)]
                          /\ incoming' = [in1 EXCEPT ![to] = Pop(@)]
                          /\ lines' = lines
                          /\ gcall' = GCall("add_line", from, to, "DependencyCycle", <<>>)
                     ELSE /\ outgoing' = out1
                          /\ incoming' = in1
                          /\ lines' = lines @@ (id :> [from |-> from, to |-> to, proof_term |-> term])
                          /\ gcall' = GCall("add_line", from, to, "Ok", <<id>>)
            /\ UNCHANGED <<points, next_point_id>>

(***************************************************************************)
(* ConstructionGraph::find_path: BFS over outgoing lines                   *)
(***************************************************************************)
RECURSIVE explore_neighbors(_, _, _, _, _, _)
explore_neighbors_overwrite_parent(L, edges, current, queue, visited, parent) ==
    IF edges = <<>> THEN [queue |-> queue, visited |-> visited, parent |-> parent]
    ELSE LET line_id == Head(edges)
         IN IF line_id \in DOMAIN L /\ L[line_id].to \notin visited
            THEN explore_neighbors(L, Tail(edges), current,
                                   Append(queue, L[line_id].to),
                                   visited \cup {L[line_id].to},
                                   parent @@ (L[line_id].to :> [prev |-> current, line |-> line_id]))
            ELSE IF line_id \in DOMAIN L /\ L[line_id].to \in DOMAIN parent
            THEN explore_neighbors(L, Tail(edges), current, queue, visited,
                                   (L[line_id].to :> [prev |-> current, line |-> line_id]) @@ parent)
            ELSE explore_neighbors(L, Tail(edges), current, queue, visited, parent)

explore_neighbors(L, edges, current, queue, visited, parent) ==
    IF edges = <<>> THEN [queue |-> queue, visited |-> visited, parent |-> parent]
    ELSE LET line_id == Head(edges)
         IN IF line_id \in DOMAIN L /\ L[line_id].to \notin visited
            THEN explore_neighbors(L, Tail(edges), current,
                                   Append(queue, L[line_id].to),
                                   visited \cup {L[line_id].to},
                                   parent @@ (L[line_id].to :> [prev |-> current, line |-> line_id]))
            ELSE explore_neighbors(L, Tail(edges), current, queue, visited, parent)

\* the reconstruction loop: walk parent links back from `to`, collecting line ids
RECURSIVE reconstruct_path(_, _, _, _)
reconstruct_path(parent, from, node, line_path) ==
    IF node = from THEN line_path
    ELSE IF node \in DOMAIN parent
         THEN reconstruct_path(parent, from, parent[node].prev, Append(line_path, parent[node].line))
         ELSE line_path

RECURSIVE bfs_loop(_, _, _, _, _, _, _)
bfs_loop(L, O, from, to, queue, visited, parent) ==
    IF queue = <<>> THEN [found |-> FALSE, lines |-> <<>>]
    ELSE LET current == Head(queue)
         IN IF current = to
            THEN [found |-> TRUE, lines |-> Reverse(reconstruct_path(parent, from, to, <<>>))]
            ELSE LET r == explore_neighbors(L, EdgesOf(O, current), current, Tail(queue),
                                            visited, parent)
                 IN bfs_loop(L, O, from, to, r.queue, r.visited, r.parent)

find_path(L, O, from, to) ==
    IF from = to THEN [found |-> TRUE, lines |-> <<>>]
    ELSE bfs_loop(L, O, from, to, <<from>>, {from}, << >>)

FindPath(from, to) ==
    /\ LET r == find_path(lines, outgoing, from, to)
       IN gcall' = GCall("find_path", from, to, IF r.found THEN "Some" ELSE "None", r.lines)
    /\ UNCHANGED <<points, lines, outgoing, incoming, next_point_id, next_line_id>>
    /\ UNCHANGED <<pvars, bvars, kvars>>

(***************************************************************************)
(* ConstructionGraph::verify                                               *)
(* `order` is the order in which the HashMap yields the point keys.        *)
(***************************************************************************)
RECURSIVE verify_cycles(_, _, _, _, _)
verify_cycles(L, O, order, visited, rec_stack) ==
    IF order = <<>> THEN FALSE
    ELSE IF Head(order) \in visited
         THEN verify_cycles(L, O, Tail(order), visited, rec_stack)
         ELSE LET r == has_cycle_dfs(L, O, Head(order), visited, rec_stack, -1)
              IN IF r.cyc THEN TRUE
                 ELSE verify_cycles(L, O, Tail(order), r.visited, r.rec_stack)

verify(P, L, O, order) ==
    IF \E l \in DOMAIN L : L[l].from \notin DOMAIN P \/ L[l].to \notin DOMAIN P
    THEN "InvalidConstruction"
    ELSE IF verify_cycles(L, O, order, {}, {}) THEN "DependencyCycle" ELSE "Ok"

\* every order in which a HashMap over the keys S may iterate
KeyOrders(S) ==
    {o \in [1 .. Cardinality(S) -> S] : \A i, j \in 1 .. Cardinality(S) : i # j => o[i] # o[j]}

Verify ==
    /\ \E order \in KeyOrders(DOMAIN points) :
           gcall' = GCall("verify", -1, -1, verify(points, lines, outgoing, order), <<>>)
    /\ UNCHANGED <<points, lines, outgoing, incoming, next_point_id, next_line_id>>
    /\ UNCHANGED <<pvars, bvars, kvars>>

(***************************************************************************)
(* ConstructionGraph::axioms / compute_depth / compute_depth_from          *)
(***************************************************************************)
axioms(P, I) == {id \in DOMAIN P : EdgesOf(I, id) = <<>>}

theorems(P, O) == {id \in DOMAIN P : EdgesOf(O, id) = <<>>}

RECURSIVE push_edges(_, _, _, _)
push_edges(L, edges, depth, stack) ==
    IF edges = <<>> THEN stack
    ELSE IF Head(edges) \in DOMAIN L
         THEN push_edges(L, Tail(edges), depth, Append(stack, <<L[Head(edges)].to, depth + 1>>))
         ELSE push_edges(L, Tail(edges), depth, stack)

RECURSIVE depth_loop(_, _, _, _, _)
depth_loop(L, O, stack, visited, max_depth) ==
    IF stack = <<>> THEN max_depth
    ELSE LET point == stack[Len(stack)][1]
             depth == stack[Len(stack)][2]
         IN IF point \in visited
            THEN depth_loop(L, O, Pop(stack), visited, max_depth)
            ELSE depth_loop(L, O, push_edges(L, EdgesOf(O, point), depth, Pop(stack)),
                            visited \cup {point}, Max2(max_depth, depth))

compute_depth_from(L, O, start) == depth_loop(L, O, <<(<<start, 0>>)>>, {}, 0)

RECURSIVE max_over(_, _, _, _)
max_over(L, O, S, max_depth) ==
    IF S = {} THEN max_depth
    ELSE LET axiom == CHOOSE a \in S : TRUE
         IN max_over(L, O, S \ {axiom}, Max2(max_depth, compute_depth_from(L, O, axiom)))

compute_depth(P, L, O, I) == max_over(L, O, axioms(P, I), 0)

ComputeDepth ==
    /\ gcall' = GCall("compute_depth", -1, -1, "Ok",
                      <<compute_depth(points, lines, outgoing, incoming)>>)
    /\ UNCHANGED <<points, lines, outgoing, incoming, next_point_id, next_line_id>>
    /\ UNCHANGED <<pvars, bvars, kvars>>

GraphNext ==
    \/ \E prop \in GraphProps : AddPoint(prop)
    \/ \E from \in PointIds, to \in PointIds, term \in GraphTerms :
           next_line_id < GraphMaxLines /\ AddLine(from, to, term)
    \/ \E from \in PointIds, to \in PointIds : FindPath(from, to)
    \/ Verify

\* the graph is built up to MaxLines line ids and its depth is asked for
DepthNext ==
    \/ \E prop \in GraphProps : AddPoint(prop)
    \/ \E from \in PointIds, to \in PointIds, term \in GraphTerms : AddLine(from, to, term)
    \/ ComputeDepth

(***************************************************************************)
(* Graph notions the properties are stated in                              *)
(***************************************************************************)
\* the points reached from the set S along at most k stored lines
RECURSIVE ReachFrom(_, _, _)
ReachFrom(L, S, k) ==
    IF k = 0 THEN S
    ELSE ReachFrom(L, S \cup {L[l].to : l \in {x \in DOMAIN L : L[x].from \in S}}, k - 1)

\* `to` reaches `from` along zero or more stored lines
Reaches(L, to, from) == from \in ReachFrom(L, {to}, Cardinality(DOMAIN L))

\* some stored line closes a directed cycle (a self-loop is one)
HasDirectedCycle(L) == \E l \in DOMAIN L : Reaches(L, L[l].to, L[l].from)

\* the chains of exactly k stored lines that start at point p
RECURSIVE Chains(_, _, _)
Chains(L, p, k) ==
    IF k = 0 THEN {<<>>}
    ELSE {Append(c, l) : <<c, l>> \in
             {<<c, l>> \in Chains(L, p, k - 1) \X DOMAIN L :
                 L[l].from = (IF c = <<>> THEN p ELSE L[c[Len(c)]].to)}}

ChainEnd(L, p, c) == IF c = <<>> THEN p ELSE L[c[Len(c)]].to

ChainsTo(L, p, q, k) == {c \in Chains(L, p, k) : ChainEnd(L, p, c) = q}

IndexOf(seq, x) == CHOOSE i \in 1 .. Len(seq) : seq[i] = x

\* the position of each line of a chain in its source point's outgoing list
PosSeq(L, O, c) == [i \in 1 .. Len(c) |-> IndexOf(O[L[c[i]].from], c[i])]

LexLeq(s, t) ==
    \/ s = t
    \/ \E i \in 1 .. Len(s) : s[i] < t[i] /\ \A j \in 1 .. (i - 1) : s[j] = t[j]

SetMax(S) == CHOOSE m \in S : \A x \in S : x <= m

\* the number of lines on the longest chain from an axiom to a theorem
LongestPath(P, L, O, I) ==
    SetMax({0} \cup {k \in 1 .. Cardinality(DOMAIN L) :
                \E a \in axioms(P, I), t \in theorems(P, O) : ChainsTo(L, a, t, k) # {}})

GraphFrame == <<points, lines, outgoing, incoming, next_point_id, next_line_id>>

(***************************************************************************)
(* Properties of the construction graph                                    *)
(***************************************************************************)
\* C1: after any sequence of add_point and add_line calls the stored lines
\* contain no directed cycle, self-loops included.
C1_GraphAcyclic == ~HasDirectedCycle(lines)

\* C2: add_line with both endpoints present, whose target already reaches its
\* source through stored lines (or whose source is its target), returns
\* DependencyCycle and leaves the stored lines as they were.
C2_CycleRefused ==
    [][(/\ gcall'.op = "add_line"
        /\ gcall'.a \in DOMAIN points
        /\ gcall'.b \in DOMAIN points
        /\ Reaches(lines, gcall'.b, gcall'.a))
       => (gcall'.result = "DependencyCycle" /\ lines' = lines)]_vars

\* C3: an add_line call that returns InvalidConstruction or DependencyCycle
\* leaves points, lines, outgoing, incoming and both id counters unchanged.
C3_RejectedAddLineIsNoop ==
    [][(gcall'.op = "add_line" /\ gcall'.result \in {"InvalidConstruction", "DependencyCycle"})
       => UNCHANGED GraphFrame]_vars

C8_DepthIsLongestPath ==
    (gcall.op = "compute_depth" /\ ~HasDirectedCycle(lines)) =>
        gcall.value = <<LongestPath(points, lines, outgoing, incoming)>>

\* C9: verify returns Ok iff every stored line's endpoints are points and the
\* stored lines have no directed cycle; with all endpoints present it returns
\* DependencyCycle exactly when there is a directed cycle.
C9_VerifyDetectsCycles ==
    gcall.op = "verify" =>
        LET endpoints == \A l \in DOMAIN lines :
                             lines[l].from \in DOMAIN points /\ lines[l].to \in DOMAIN points
        IN /\ (gcall.result = "Ok") <=> (endpoints /\ ~HasDirectedCycle(lines))
           /\ endpoints => ((gcall.result = "DependencyCycle") <=> HasDirectedCycle(lines))

\* C9 witness: verify reported the cycle of a graph that has one through two
\* different points.
C9_Witness ==
    /\ gcall.op = "verify"
    /\ gcall.result = "DependencyCycle"
    /\ \E l \in DOMAIN lines : lines[l].from # lines[l].to /\ Reaches(lines, lines[l].to, lines[l].from)

\* C11: add_line returns InvalidConstruction exactly when from or to is not
\* the id of a point, and such a call changes nothing, the line id counter
\* included; every stored line has both endpoints among the points.
C11_UnknownEndpointRefused ==
    /\ [](\A l \in DOMAIN lines :
             lines[l].from \in DOMAIN points /\ lines[l].to \in DOMAIN points)
    /\ [](gcall.op = "add_line" =>
             ((gcall.result = "InvalidConstruction") <=>
                  (gcall.a \notin DOMAIN points \/ gcall.b \notin DOMAIN points)))
    /\ [][(gcall'.op = "add_line" /\ gcall'.result = "InvalidConstruction")
             => UNCHANGED GraphFrame]_vars

\* C11 witness: on a graph that already stores a line, add_line from a known
\* point to an unknown one was refused and the next line id is still the
\* number of add_line calls past the endpoint test.
C11_Witness ==
    /\ gcall.op = "add_line"
    /\ gcall.result = "InvalidConstruction"
    /\ gcall.a \in DOMAIN points
    /\ gcall.b \notin DOMAIN points
    /\ lines # <<>>
    /\ next_line_id = Cardinality(DOMAIN lines)

\* the ids of a list are strictly increasing: line ids are handed out in
\* increasing order, so this is insertion order with each id once
StrictlyIncreasing(seq) == \A i, j \in DOMAIN seq : i < j => seq[i] < seq[j]

GoalVals == {[id |-> i, proposition |-> EType(i)] : i \in 0 .. (MaxGoalId - 1)}

\* the propositions of those goals
GoalProps == {EType(i) : i \in 0 .. (MaxGoalId - 1)}

RECURSIVE SeqsUpTo(_, _)
SeqsUpTo(S, n) ==
    IF n = 0 THEN {<<>>}
    ELSE SeqsUpTo(S, n - 1) \cup {Append(q, x) : <<q, x>> \in SeqsUpTo(S, n - 1) \X S}

Mutating == {"add_goal", "complete_current_goal", "replace_goal"}

ProofSnapshot(g, c) == [goals |-> g, completed |-> c]

PushTrace(t, op, result) ==
    LET t1 == Append(t, [op |-> op, result |-> result])
    IN IF Len(t1) > TraceLen THEN Tail(t1) ELSE t1

\* ProofState::new
ProofInit ==
    /\ goals = <<>>
    /\ completed = <<>>
    /\ history = <<>>
    /\ history_pos = 0
    /\ next_goal_id = 0
    /\ ptrace = <<>>
    /\ pre_op = ProofSnapshot(<<>>, <<>>)
    /\ post_op = ProofSnapshot(<<>>, <<>>)

\* ProofState::save_snapshot: the history and cursor it leaves
save_snapshot_keep_tail(g, c, h, pos) ==
    [history |-> Append(h, ProofSnapshot(g, c)), history_pos |-> pos + 1]

save_snapshot(g, c, h, pos) ==
    LET h1 == IF pos < Len(h) THEN SubSeq(h, 1, pos) ELSE h
        h2 == Append(h1, ProofSnapshot(g, c))
    IN [history |-> h2, history_pos |-> Len(h2)]

\* ProofState::undo; history[k] of the code is h[k + 1] here
undo_keep_completed(g, c, h, pos) ==
    IF pos > 0
    THEN [result |-> "Ok", goals |-> h[pos].goals, completed |-> c,
          history_pos |-> pos - 1]
    ELSE [result |-> "InvalidProofState", goals |-> g, completed |-> c, history_pos |-> pos]

undo(g, c, h, pos) ==
    IF pos > 0
    THEN [result |-> "Ok", goals |-> h[pos].goals, completed |-> h[pos].completed,
          history_pos |-> pos - 1]
    ELSE [result |-> "InvalidProofState", goals |-> g, completed |-> c, history_pos |-> pos]

\* ProofState::redo
redo(g, c, h, pos) ==
    IF pos < Len(h)
    THEN [result |-> "Ok", goals |-> h[pos + 1].goals, completed |-> h[pos + 1].completed,
          history_pos |-> pos + 1]
    ELSE [result |-> "InvalidProofState", goals |-> g, completed |-> c, history_pos |-> pos]

can_undo(pos) == pos > 0

can_redo(h, pos) == pos < Len(h)

\* what every mutating call records about itself
Mutated(op, result, g1, c1) ==
    /\ ptrace' = PushTrace(ptrace, op, result)
    /\ pre_op' = ProofSnapshot(goals, completed)
    /\ post_op' = ProofSnapshot(g1, c1)
    /\ goals' = g1
    /\ completed' = c1

\* ProofState::add_goal
AddGoal(goal) ==
    /\ history_pos < MaxHistory
    /\ LET s == save_snapshot(goals, completed, history, history_pos)
       IN /\ history' = s.history
          /\ history_pos' = s.history_pos
          /\ Mutated("add_goal", "Ok", Append(goals, goal), completed)
    /\ UNCHANGED <<gvars, bvars, kvars, next_goal_id>>

\* ProofState::complete_current_goal
CompleteCurrentGoal ==
    /\ history_pos < MaxHistory
    /\ LET s == save_snapshot(goals, completed, history, history_pos)
       IN /\ history' = s.history
          /\ history_pos' = s.history_pos
          /\ IF goals = <<>>
             THEN Mutated("complete_current_goal", "GoalNotFound", goals, completed)
             ELSE Mutated("complete_current_goal", "Ok", Tail(goals),
                          Append(completed, Head(goals)))
    /\ UNCHANGED <<gvars, bvars, kvars, next_goal_id>>

\* ProofState::replace_goal
ReplaceGoal(subgoals) ==
    /\ history_pos < MaxHistory
    /\ LET s == save_snapshot(goals, completed, history, history_pos)
       IN /\ history' = s.history
          /\ history_pos' = s.history_pos
          /\ Mutated("replace_goal", "Ok",
                     subgoals \o (IF goals = <<>> THEN <<>> ELSE Tail(goals)), completed)
    /\ UNCHANGED <<gvars, bvars, kvars, next_goal_id>>

\* ProofState::current_goal_mut, and the write the caller makes through the
\* returned &mut Goal: the proposition (a pub field) of the first open goal
CurrentGoalMut(prop) ==
    /\ IF goals = <<>>
       THEN /\ goals' = goals
            /\ ptrace' = PushTrace(ptrace, "current_goal_mut", "None")
       ELSE /\ goals' = <<[Head(goals) EXCEPT !.proposition = prop]>> \o Tail(goals)
            /\ ptrace' = PushTrace(ptrace, "current_goal_mut", "Some")
    /\ UNCHANGED <<completed, history, history_pos, pre_op, post_op>>
    /\ UNCHANGED <<gvars, bvars, kvars, next_goal_id>>

\* ProofState::undo
Undo ==
    /\ LET r == undo(goals, completed, history, history_pos)
       IN /\ goals' = r.goals
          /\ completed' = r.completed
          /\ history_pos' = r.history_pos
          /\ ptrace' = PushTrace(ptrace, "undo", r.result)
    /\ UNCHANGED <<history, pre_op, post_op>>
    /\ UNCHANGED <<gvars, bvars, kvars, next_goal_id>>

\* ProofState::redo
Redo ==
    /\ LET r == redo(goals, completed, history, history_pos)
       IN /\ goals' = r.goals
          /\ completed' = r.completed
          /\ history_pos' = r.history_pos
          /\ ptrace' = PushTrace(ptrace, "redo", r.result)
    /\ UNCHANGED <<history, pre_op, post_op>>
    /\ UNCHANGED <<gvars, bvars, kvars, next_goal_id>>

ProofNext ==
    \/ \E goal \in GoalVals : AddGoal(goal)
    \/ CompleteCurrentGoal
    \/ \E subgoals \in SeqsUpTo(GoalVals, MaxSubgoals) : ReplaceGoal(subgoals)
    \/ Undo
    \/ Redo

\* the whole public interface: the calls above and current_goal_mut
ProofMutNext ==
    \/ ProofNext
    \/ \E prop \in GoalProps : CurrentGoalMut(prop)

\* the call made i calls ago (0 = the last one), if the trace reaches that far
Called(i) ==
    IF Len(ptrace) > i THEN ptrace[Len(ptrace) - i] ELSE [op |-> "none", result |-> "none"]

(***************************************************************************)
(* Properties of the proof state                                           *)
(***************************************************************************)
\* C4: a successful add_goal, replace_goal or complete_current_goal followed by
\* undo: undo returns Ok and the open goals and the completed goals are again
\* what they were before the operation.
C4_UndoRestoresPreState ==
    (Called(0).op = "undo" /\ Called(1).op \in Mutating /\ Called(1).result = "Ok") =>
        /\ Called(0).result = "Ok"
        /\ goals = pre_op.goals
        /\ completed = pre_op.completed

\* C4 witness: complete_current_goal moved a goal to the completed list and
\* undo has put it back among the open goals.
C4_Witness ==
    /\ Called(0) = [op |-> "undo", result |-> "Ok"]
    /\ Called(1) = [op |-> "complete_current_goal", result |-> "Ok"]
    /\ Len(goals) >= 1
    /\ goals = pre_op.goals
    /\ completed = pre_op.completed
    /\ post_op.completed # pre_op.completed

\* C5: a successful mutating operation, then undo, then redo: redo returns Ok
\* and the open goals and the completed goals are what they were right after
\* the operation.
C5_RedoReinstatesPostState ==
    (/\ Called(0).op = "redo"
     /\ Called(1) = [op |-> "undo", result |-> "Ok"]
     /\ Called(2).op \in Mutating /\ Called(2).result = "Ok") =>
        /\ Called(0).result = "Ok"
        /\ goals = post_op.goals
        /\ completed = post_op.completed

\* C6: a mutating operation discards the history beyond the cursor, so after
\* it can_redo() is false, and it stays false, redo() returning an error,
\* until the next undo().
C6_MutationTruncatesRedoTail ==
    /\ [](Called(0).op \in Mutating => ~can_redo(history, history_pos))
    /\ [][(~can_redo(history, history_pos) /\ Called(0)' .op # "undo") =>
             (/\ ~can_redo(history', history_pos')
              /\ (Called(0)' .op = "redo" => Called(0)' .result = "InvalidProofState"))]_vars

\* C6 witness: two operations were undone and a new mutation then cut the
\* history back to a single entry, leaving nothing to redo.
C6_Witness ==
    /\ Called(0).op \in Mutating
    /\ Called(1) = [op |-> "undo", result |-> "Ok"]
    /\ Called(2) = [op |-> "undo", result |-> "Ok"]
    /\ Len(history) = 1
    /\ history_pos = 1
    /\ ~can_redo(history, history_pos)

\* C12: a ProofState call that returns an error (undo, redo,
\* complete_current_goal) leaves goals, completed, history and history_pos
\* unchanged, hence also can_undo() and can_redo().
C12_ErrorLeavesProofStateUnchanged ==
    [][(Called(0)'.result \in {"GoalNotFound", "InvalidProofState"}) =>
          (/\ UNCHANGED <<goals, completed, history, history_pos>>
           /\ can_undo(history_pos') = can_undo(history_pos)
           /\ can_redo(history', history_pos') = can_redo(history, history_pos))]_vars

\* C13: every call other than undo and redo that changes the open goals or
\* the completed goals leaves the pre-change state as the last history entry
\* with the cursor behind it, so that one undo brings that state back.
C13_EveryChangeIsSnapshotted ==
    [][(<<goals, completed>>' # <<goals, completed>> /\ Called(0)'.op \notin {"undo", "redo"}) =>
          (/\ history_pos' = Len(history')
           /\ history' # <<>>
           /\ history'[Len(history')] = ProofSnapshot(goals, completed)
           /\ LET r == undo(goals', completed', history', history_pos')
              IN r.result = "Ok" /\ r.goals = goals /\ r.completed = completed)]_vars

(***************************************************************************)
(* sctt-core: values, eval, conv and the bidirectional checker, on the     *)
(* fragment Type / Var / Pi / Lambda / App.  Names are display-only and    *)
(* are left out.                                                           *)
(***************************************************************************)
VType(l) == [tag |-> "VType", level |-> l]
Closure(env, body) == [env |-> env, body |-> body]
VPi(d, clo) == [tag |-> "VPi", domain |-> d, closure |-> clo]
VLam(clo) == [tag |-> "VLam", closure |-> clo]
VNeutral(ty, n) == [tag |-> "VNeutral", ty |-> ty, neutral |-> n]
NVar(i) == [tag |-> "NVar", idx |-> i]
NApp(f, a) == [tag |-> "NApp", func |-> f, arg |-> a]
VPath(ty, l, r) == [tag |-> "VPath", ty |-> ty, left |-> l, right |-> r]
DimClosure(env, dim_env, body) == [env |-> env, dim_env |-> dim_env, body |-> body]
VPathLam(dim, clo) == [tag |-> "VPathLam", dim |-> dim, dim_closure |-> clo]
VSmoothPath(k, ty, l, r) ==
    [tag |-> "VSmoothPath", order |-> k, ty |-> ty, left |-> l, right |-> r]
NPathApp(path, dim) == [tag |-> "NPathApp", path |-> path, dim |-> dim]
NComp(ty, base) == [tag |-> "NComp", ty |-> ty, base |-> base]
\* Dim and Face of syntax.rs
DZero == [tag |-> "Zero"]
DOne == [tag |-> "One"]
DVar(v) == [tag |-> "Var", var |-> v]
FEq(v, val) == [tag |-> "Eq", var |-> v, val |-> val]
FAnd(f1, f2) == [tag |-> "And", f1 |-> f1, f2 |-> f2]
FTrue == [tag |-> "True"]
\* a Rust panic (unbound index in eval, application of a non-function)
VPanic == [tag |-> "Panic"]

(***************************************************************************)
(* Kan operations comp and hcomp (kan.rs)                                  *)
(***************************************************************************)
\* dim_to_env: the (variable, value) pairs a target dimension stands for
dim_to_env(dim) ==
    IF dim.tag = "Zero" THEN <<[var |-> 0, val |-> FALSE]>>
    ELSE IF dim.tag = "One" THEN <<[var |-> 0, val |-> TRUE]>>
    ELSE <<[var |-> dim.var, val |-> FALSE]>>

\* face_satisfied; Eq looks at the first pair of its variable
RECURSIVE face_satisfied(_, _)
face_satisfied(face, dims) ==
    IF face.tag = "Eq"
    THEN LET hits == {i \in DOMAIN dims : dims[i].var = face.var}
         IN hits # {} /\ dims[CHOOSE i \in hits : \A j \in hits : i <= j].val = face.val
    ELSE IF face.tag = "And"
    THEN face_satisfied(face.f1, dims) /\ face_satisfied(face.f2, dims)
    ELSE TRUE

\* a face loop that keeps going and returns the last satisfied face's value
RECURSIVE scan_faces_keep_last(_, _)
scan_faces_keep_last(faces, target_dims) ==
    IF faces = <<>> THEN <<>>
    ELSE LET rest == scan_faces_keep_last(Tail(faces), target_dims)
         IN IF rest # <<>> THEN rest
            ELSE IF face_satisfied(Head(faces).face, target_dims) THEN <<Head(faces).value>>
            ELSE <<>>

\* the face loop of comp: <<value>> of the first satisfied face, <<>> if none
RECURSIVE scan_faces(_, _)
scan_faces(faces, target_dims) ==
    IF faces = <<>> THEN <<>>
    ELSE IF face_satisfied(Head(faces).face, target_dims) THEN <<Head(faces).value>>
    ELSE scan_faces(Tail(faces), target_dims)

\* case 3 of comp: by the head of the type; the placeholder variables
\* comp_base / path_base are NVar(0)
comp_by_type(ty, base) ==
    IF ty.tag = "VType" THEN base
    ELSE VNeutral(ty, NComp(ty, IF base.tag = "VNeutral" THEN base.neutral ELSE NVar(0)))

\* comp
comp(ty, base, faces, target_dim) ==
    IF faces = <<>> /\ target_dim.tag = "Zero" THEN base
    ELSE LET hit == scan_faces(faces, dim_to_env(target_dim))
         IN IF hit # <<>> THEN hit[1] ELSE comp_by_type(ty, base)

\* hcomp
hcomp(ty, base, faces) == comp(ty, base, faces, DOne)

(***************************************************************************)
(* eval (eval.rs), Value::apply, Value::conv (value.rs)                    *)
(***************************************************************************)
RECURSIVE eval(_, _)
RECURSIVE eval_with_dims(_, _, _)
RECURSIVE eval_faces(_, _, _)
RECURSIVE value_apply(_, _)

\* Closure::apply
closure_apply(clo, arg) == eval(clo.body, Append(clo.env, arg))

\* Value::apply
value_apply(f, arg) ==
    IF f.tag = "Panic" \/ arg.tag = "Panic" THEN VPanic
    ELSE IF f.tag = "VLam" THEN closure_apply(f.closure, arg)
    ELSE IF f.tag = "VNeutral"
    THEN VNeutral(IF f.ty.tag = "VPi" THEN closure_apply(f.ty.closure, arg) ELSE f.ty,
                  NApp(f.neutral, arg))
    ELSE VPanic

\* DimClosure::apply: the body is evaluated by eval, the dimension is dropped
dim_closure_apply(clo, dim) == eval(clo.body, clo.env)

\* Value::apply_path
apply_path(v, dim) ==
    IF v.tag = "VPathLam" THEN dim_closure_apply(v.dim_closure, dim)
    ELSE IF v.tag = "VNeutral"
    THEN VNeutral(IF v.ty.tag = "VPath" THEN v.ty.ty ELSE v.ty, NPathApp(v.neutral, dim))
    ELSE VPanic

\* resolve_dim
resolve_dim(dim, dim_env) ==
    IF dim.tag = "Var" /\ dim.var < Len(dim_env) THEN dim_env[dim.var + 1] ELSE dim

\* the faces of a Comp / HComp expression, evaluated in order
eval_faces(faces, env, dim_env) ==
    [i \in DOMAIN faces |->
        [face |-> faces[i].face, value |-> eval_with_dims(faces[i].expr, env, dim_env)]]

\* eval_with_dims
eval_with_dims(expr, env, dim_env) ==
    IF expr.tag = "Panic" THEN VPanic
    ELSE IF expr.tag = "Type" THEN VType(expr.level)
    ELSE IF expr.tag = "Var"
    THEN IF expr.idx < Len(env) THEN env[expr.idx + 1] ELSE VPanic
    ELSE IF expr.tag = "Pi"
    THEN LET d == eval_with_dims(expr.domain, env, dim_env)
         IN IF d.tag = "Panic" THEN VPanic ELSE VPi(d, Closure(env, expr.codomain))
    ELSE IF expr.tag = "Lambda" THEN VLam(Closure(env, expr.body))
    ELSE IF expr.tag = "App"
    THEN value_apply(eval_with_dims(expr.func, env, dim_env),
                     eval_with_dims(expr.arg, env, dim_env))
    ELSE IF expr.tag \in {"Path", "SmoothPath"}
    THEN LET ty == eval_with_dims(expr.ty, env, dim_env)
             l == eval_with_dims(expr.left, env, dim_env)
             r == eval_with_dims(expr.right, env, dim_env)
         IN IF "Panic" \in {ty.tag, l.tag, r.tag} THEN VPanic
            ELSE IF expr.tag = "Path" THEN VPath(ty, l, r)
            ELSE VSmoothPath(expr.order, ty, l, r)
    ELSE IF expr.tag = "PathLam"
    THEN VPathLam(expr.dim, DimClosure(env, dim_env, expr.body))
    ELSE IF expr.tag = "PathApp"
    THEN LET path == eval_with_dims(expr.path, env, dim_env)
         IN IF path.tag = "Panic" THEN VPanic
            ELSE apply_path(path, resolve_dim(expr.dim, dim_env))
    ELSE LET ty == eval_with_dims(expr.ty, env, dim_env)
             base == eval_with_dims(expr.base, env, dim_env)
             faces == eval_faces(expr.faces, env, dim_env)
         IN IF "Panic" \in {ty.tag, base.tag} \cup {faces[i].value.tag : i \in DOMAIN faces}
            THEN VPanic
            ELSE IF expr.tag = "Comp" THEN comp(ty, base, faces, DOne)
            ELSE hcomp(ty, base, faces)

\* eval
eval(expr, env) == eval_with_dims(expr, env, <<>>)

\* Value::conv and Neutral::conv_neutral
RECURSIVE conv(_, _)
RECURSIVE conv_neutral(_, _)
conv_neutral(n1, n2) ==
    IF n1.tag = "NVar" /\ n2.tag = "NVar" THEN n1.idx = n2.idx
    ELSE IF n1.tag = "NApp" /\ n2.tag = "NApp"
    THEN conv_neutral(n1.func, n2.func) /\ conv(n1.arg, n2.arg)
    ELSE IF n1.tag = "NPathApp" /\ n2.tag = "NPathApp"
    THEN conv_neutral(n1.path, n2.path) /\ n1.dim = n2.dim
    ELSE FALSE

conv(v1, v2) ==
    IF v1.tag = "VType" /\ v2.tag = "VType" THEN v1.level = v2.level
    ELSE IF v1.tag = "VPi" /\ v2.tag = "VPi" THEN conv(v1.domain, v2.domain)
    ELSE IF v1.tag = "VPath" /\ v2.tag = "VPath"
    THEN conv(v1.ty, v2.ty) /\ conv(v1.left, v2.left) /\ conv(v1.right, v2.right)
    ELSE IF v1.tag = "VNeutral" /\ v2.tag = "VNeutral" THEN conv_neutral(v1.neutral, v2.neutral)
    ELSE FALSE

(***************************************************************************)
(* normalize (normalize.rs)                                                *)
(***************************************************************************)
RECURSIVE normalize_at_level(_, _)
RECURSIVE normalize_neutral(_, _)

\* read-back of a panicked evaluation
EPanic == [tag |-> "Panic"]

normalize_neutral(neutral, level) ==
    IF neutral.tag = "NVar" THEN EVar(neutral.idx)
    ELSE IF neutral.tag = "NApp"
    THEN EApp(normalize_neutral(neutral.func, level), normalize_at_level(neutral.arg, level))
    ELSE IF neutral.tag = "NPathApp"
    THEN EPathApp(normalize_neutral(neutral.path, level), neutral.dim)
    ELSE EComp(normalize_at_level(neutral.ty, level), normalize_neutral(neutral.base, level), <<>>)

normalize_at_level(val, level) ==
    IF val.tag = "Panic" THEN EPanic
    ELSE IF val.tag = "VType" THEN EType(val.level)
    ELSE IF val.tag = "VPi"
    THEN EPi(normalize_at_level(val.domain, level),
             normalize_at_level(closure_apply(val.closure, VNeutral(val.domain, NVar(level))),
                                level + 1))
    ELSE IF val.tag = "VLam"
    THEN ELambda(normalize_at_level(closure_apply(val.closure, VNeutral(VType(0), NVar(level))),
                                    level + 1))
    ELSE IF val.tag = "VPath"
    THEN EPath(normalize_at_level(val.ty, level), normalize_at_level(val.left, level),
               normalize_at_level(val.right, level))
    ELSE IF val.tag = "VSmoothPath"
    THEN ESmoothPath(val.order, normalize_at_level(val.ty, level),
                     normalize_at_level(val.left, level), normalize_at_level(val.right, level))
    ELSE IF val.tag = "VPathLam"
    THEN EPathLam(val.dim,
                  normalize_at_level(dim_closure_apply(val.dim_closure, DVar(val.dim)), level))
    ELSE normalize_neutral(val.neutral, level)

normalize(val) == normalize_at_level(val, 0)

(***************************************************************************)
(* Context, infer and check (check.rs)                                     *)
(***************************************************************************)
\* Context::env for a context with the given types: entry i is the neutral
\* variable of index i that Context::extend pushed
ContextEnv(types) == [i \in 1 .. Len(types) |-> VNeutral(types[i], NVar(i - 1))]

\* Context::extend
ContextExtend(types, ty) == Append(types, ty)

TyOk(ty) == [ok |-> TRUE, ty |-> ty, err |-> "none"]
TyErr(e) == [ok |-> FALSE, ty |-> VPanic, err |-> e]

\* infer and check; a context is its sequence of types
RECURSIVE infer(_, _)
RECURSIVE check(_, _, _)
RECURSIVE check_faces(_, _, _)

\* the loop over the faces in infer of Comp / HComp; validate_face never fails
check_faces(types, faces, ty_val) ==
    IF faces = <<>> THEN "Ok"
    ELSE LET c == check(types, Head(faces).expr, ty_val)
         IN IF c # "Ok" THEN c ELSE check_faces(types, Tail(faces), ty_val)

infer(types, expr) ==
    IF expr.tag = "Type" THEN TyOk(VType(expr.level + 1))
    ELSE IF expr.tag = "Var"
    THEN IF expr.idx < Len(types) THEN TyOk(types[expr.idx + 1]) ELSE TyErr("UnboundVariable")
    ELSE IF expr.tag = "Pi"
    THEN LET domain_ty == infer(types, expr.domain)
         IN IF ~domain_ty.ok THEN domain_ty
            ELSE IF domain_ty.ty.tag # "VType" THEN TyErr("TypeMismatch")
            ELSE LET ctx2 == ContextExtend(types, eval(expr.domain, ContextEnv(types)))
                     codomain_ty == infer(ctx2, expr.codomain)
                 IN IF ~codomain_ty.ok THEN codomain_ty
                    ELSE IF codomain_ty.ty.tag # "VType" THEN TyErr("TypeMismatch")
                    ELSE TyOk(VType(Max2(domain_ty.ty.level, codomain_ty.ty.level)))
    ELSE IF expr.tag = "App"
    THEN LET func_ty == infer(types, expr.func)
         IN IF ~func_ty.ok THEN func_ty
            ELSE IF func_ty.ty.tag # "VPi" THEN TyErr("TypeMismatch")
            ELSE LET c == check(types, expr.arg, func_ty.ty.domain)
                 IN IF c # "Ok" THEN TyErr(c)
                    ELSE TyOk(closure_apply(func_ty.ty.closure,
                                            eval(expr.arg, ContextEnv(types))))
    ELSE IF expr.tag \in {"Path", "SmoothPath"}
    THEN LET ty_ty == infer(types, expr.ty)
         IN IF ~ty_ty.ok THEN ty_ty
            ELSE IF ty_ty.ty.tag # "VType" THEN TyErr("TypeMismatch")
            ELSE LET a_val == eval(expr.ty, ContextEnv(types))
                     cl == check(types, expr.left, a_val)
                     cr == check(types, expr.right, a_val)
                 IN IF cl # "Ok" THEN TyErr(cl)
                    ELSE IF cr # "Ok" THEN TyErr(cr)
                    ELSE IF expr.tag = "SmoothPath" /\ expr.order > 1000
                    THEN TyErr("SmoothnessViolation")
                    ELSE TyOk(VType(ty_ty.ty.level))
    ELSE IF expr.tag = "PathApp"
    THEN LET path_ty == infer(types, expr.path)
         IN IF ~path_ty.ok THEN path_ty
            ELSE IF path_ty.ty.tag \notin {"VPath", "VSmoothPath"} THEN TyErr("TypeMismatch")
            ELSE TyOk(path_ty.ty.ty)
    ELSE IF expr.tag \in {"Comp", "HComp"}
    THEN LET ty_ty == infer(types, expr.ty)
         IN IF ~ty_ty.ok THEN ty_ty
            ELSE IF ty_ty.ty.tag # "VType" THEN TyErr("TypeMismatch")
            ELSE LET ty_val == eval(expr.ty, ContextEnv(types))
                     cb == check(types, expr.base, ty_val)
                 IN IF cb # "Ok" THEN TyErr(cb)
                    ELSE LET cf == check_faces(types, expr.faces, ty_val)
                         IN IF cf # "Ok" THEN TyErr(cf) ELSE TyOk(ty_val)
    ELSE TyErr("CannotInfer")

check(types, expr, expected_ty) ==
    IF expr.tag = "Lambda" /\ expected_ty.tag = "VPi"
    THEN check(ContextExtend(types, expected_ty.domain), expr.body,
               closure_apply(expected_ty.closure,
                             VNeutral(expected_ty.domain, NVar(Len(types)))))
    ELSE IF expr.tag = "PathLam" /\ expected_ty.tag = "VPath"
    THEN check(types, expr.body, expected_ty.ty)
    ELSE LET inferred_ty == infer(types, expr)
         IN IF ~inferred_ty.ok THEN inferred_ty.err
            ELSE IF conv(inferred_ty.ty, expected_ty) THEN "Ok" ELSE "TypeMismatch"

(***************************************************************************)
(* eval, normalize, infer and check under test                             *)
(***************************************************************************)
\* variables and universes, and the expressions built from them in one step
TypingAtoms == {EType(0)} \cup {EVar(i) : i \in 0 .. (MaxCtx - 1)}

TypingExprs ==
    TypingAtoms
    \cup {ELambda(b) : b \in TypingAtoms}
    \cup {EPi(d, c) : d \in TypingAtoms, c \in TypingAtoms}
    \cup {EApp(f, a) : f \in TypingAtoms, a \in TypingAtoms}
    \cup {EPathApp(q, DZero) : q \in TypingAtoms}
    \cup {EPath(ty, l, l) : ty \in TypingAtoms, l \in TypingAtoms}
    \cup {EComp(ty, b, <<>>) : ty \in TypingAtoms, b \in TypingAtoms}

\* the types a context binds its variables to
SmoothPathOfTypes == VSmoothPath(1, VType(1), VType(0), VType(0))

CtxTypes ==
    {VType(0),
     VPi(VType(0), Closure(<<>>, EType(0))),
     VPath(VType(1), VType(0), VType(0)),
     SmoothPathOfTypes,
     VNeutral(VType(0), NVar(0))}

Contexts == SeqsUpTo(CtxTypes, MaxCtx)

\* lambda A. lambda x. Var(x, 0) and lambda A. lambda x. Var(x, 1)
PolyIdInner == ELambda(ELambda(EVar(0)))
PolyIdOuter == ELambda(ELambda(EVar(1)))

\* VPi{A, VType(0), x |-> VPi{_, x, x}}: the closure of A -> A reads A at
\* position 0 of its environment
PolyIdType == VPi(VType(0), Closure(<<>>, EPi(EVar(0), EVar(0))))
\* the same Pi written with 0 = innermost binder in the codomain
PolyIdTypeInner == VPi(VType(0), Closure(<<>>, EPi(EVar(0), EVar(1))))

CheckTerms == {PolyIdInner, PolyIdOuter, ELambda(EVar(0)), ELambda(EType(0))}

CheckTypes == {PolyIdType, PolyIdTypeInner, VPi(VType(0), Closure(<<>>, EType(0)))}

\* closed expressions for the round trip through normalize
RoundTripExprs ==
    {EType(l) : l \in 0 .. MaxLevel}
    \cup {EPi(EType(l), EType(0)) : l \in 0 .. MaxLevel}
    \cup {EPath(EType(l + 1), EType(l), EType(l)) : l \in 0 .. MaxLevel}
    \cup {EComp(EType(l + 1), EType(l), <<>>) : l \in 0 .. MaxLevel}
    \cup {ELambda(EVar(0)), PolyIdOuter, EPi(EType(0), EVar(0)),
           EPathLam(0, EType(0)),
           ESmoothPath(1, EType(1), EType(0), EType(0)),
           EHComp(EType(1), EType(0), <<[face |-> FTrue, expr |-> EType(0)]>>),
           EComp(EPi(EType(0), EType(0)), ELambda(EVar(0)), <<>>)}

\* the types the round-trip expressions are checked against
RoundTripTypes ==
    CheckTypes \cup {VPath(VType(1), VType(0), VType(0))}

\* environments for eval of a variable
EvalEnvs == SeqsUpTo({VType(l) : l \in 0 .. MaxLevel}, MaxCtx)

\* a test draws its inputs
TypingInit ==
    /\ \/ \E e \in RoundTripExprs : kin = [op |-> "roundtrip", expr |-> e]
       \/ \E ctx \in Contexts, e \in TypingExprs :
              kin = [op |-> "infer", ctx |-> ctx, expr |-> e]
       \/ \E e \in CheckTerms, ty \in CheckTypes :
              kin = [op |-> "check", ctx |-> <<>>, expr |-> e, ty |-> ty]
       \/ \E env \in EvalEnvs, i \in 0 .. (MaxCtx - 1) :
              kin = [op |-> "eval", expr |-> EVar(i), env |-> env]
    /\ kout = <<>>

\* eval, then normalize, then eval again (test_eval_normalize_roundtrip)
NormalizeRoundTrip ==
    /\ kin.op = "roundtrip"
    /\ kout = <<>>
    /\ LET value == eval(kin.expr, <<>>)
           normal == normalize(value)
       IN kout' = <<[value |-> value, normal |-> normal, back |-> eval(normal, <<>>)]>>
    /\ UNCHANGED <<kin, search, gvars, pvars, bvars>>

\* infer(ctx, e) and, when it returns Ok(T), check(ctx, e, T)
InferThenCheck ==
    /\ kin.op = "infer"
    /\ kout = <<>>
    /\ LET inferred == infer(kin.ctx, kin.expr)
       IN kout' = <<[inferred |-> inferred,
                     checked |-> IF inferred.ok THEN check(kin.ctx, kin.expr, inferred.ty)
                                 ELSE "none"]>>
    /\ UNCHANGED <<kin, search, gvars, pvars, bvars>>

\* check(ctx, e, ty)
Check ==
    /\ kin.op = "check"
    /\ kout = <<>>
    /\ kout' = <<check(kin.ctx, kin.expr, kin.ty)>>
    /\ UNCHANGED <<kin, search, gvars, pvars, bvars>>

\* eval(e, env)
Eval ==
    /\ kin.op = "eval"
    /\ kout = <<>>
    /\ kout' = <<eval(kin.expr, kin.env)>>
    /\ UNCHANGED <<kin, search, gvars, pvars, bvars>>

TypingNext == NormalizeRoundTrip \/ InferThenCheck \/ Check \/ Eval

(***************************************************************************)
(* Properties of eval, normalize, infer and check                          *)
(***************************************************************************)
\* e is accepted by infer, or by check against one of the round-trip types
WellTyped(e) ==
    \/ infer(<<>>, e).ok
    \/ \E ty \in RoundTripTypes : check(<<>>, e, ty) = "Ok"

\* C17: for every closed well-typed expression e,
\* eval(normalize(eval(e, empty)), empty).conv(eval(e, empty)) is true.
C17_EvalNormalizeRoundTrip ==
    (kin.op = "roundtrip" /\ kout # <<>> /\ WellTyped(kin.expr)) =>
        conv(kout[1].back, kout[1].value)

\* C18: if infer(ctx, e) returns Ok(T) then check(ctx, e, T) returns Ok.
C18_InferredTypeChecks ==
    (kin.op = "infer" /\ kout # <<>> /\ kout[1].inferred.ok) => kout[1].checked = "Ok"

\* C19: Var(_, 0) is the most recently bound variable, in eval (the last value
\* pushed on the environment) and in infer (the last type the context was
\* extended with), and in the empty context check accepts
\* lambda A. lambda x. Var(x, 0) against Pi(A : Type 0). A -> A.
C19_DeBruijnIndexZeroIsInnermost ==
    /\ (kin.op = "eval" /\ kout # <<>> /\ kin.expr.idx < Len(kin.env)) =>
           kout[1] = kin.env[Len(kin.env) - kin.expr.idx]
    /\ (kin.op = "infer" /\ kout # <<>> /\ kin.expr.tag = "Var"
           /\ kin.expr.idx < Len(kin.ctx)) =>
           (kout[1].inferred.ok /\ kout[1].inferred.ty = kin.ctx[Len(kin.ctx) - kin.expr.idx])
    /\ (kin.op = "check" /\ kout # <<>> /\ kin.expr = PolyIdInner /\ kin.ty = PolyIdType) =>
           kout[1] = "Ok"

(***************************************************************************)
(* The Kan operations under test                                           *)
(***************************************************************************)
\* the values the Kan operations are called with
KanTypes ==
    {VType(0),
     VPi(VType(0), Closure(<<>>, EType(0))),
     VPath(VType(1), VType(0), VType(0)),
     VNeutral(VType(1), NVar(0))}

KanBases ==
    {VType(0),
     VLam(Closure(<<>>, EVar(0))),
     VPathLam(0, DimClosure(<<>>, <<>>, EType(0))),
     VSmoothPath(1, VType(1), VType(0), VType(0)),
     VNeutral(VType(0), NVar(0)),
     VNeutral(VType(0), NComp(VType(0), NVar(0)))}

KanDimVars == 0 .. MaxDimVar

KanDims == {DZero, DOne} \cup {DVar(v) : v \in KanDimVars}

KanFaces ==
    {FTrue, FAnd(FEq(0, TRUE), FTrue)} \cup {FEq(v, b) : v \in KanDimVars, b \in BOOLEAN}

KanFaceValues == {VType(0), VType(1)}

KanFaceSystems ==
    SeqsUpTo({[face |-> f, value |-> v] : f \in KanFaces, v \in KanFaceValues}, MaxFaces)

\* a property test draws its inputs
KanInit ==
    /\ \E A \in KanTypes, a \in KanBases, fs \in KanFaceSystems :
           \/ \E r \in KanDims :
                  kin = [op |-> "comp", ty |-> A, base |-> a, faces |-> fs, dim |-> r]
           \/ kin = [op |-> "hcomp", ty |-> A, base |-> a, faces |-> fs, dim |-> DOne]
    /\ kout = <<>>

\* the call comp(ty, base, faces, dim)
Comp ==
    /\ kin.op = "comp"
    /\ kout = <<>>
    /\ kout' = <<comp(kin.ty, kin.base, kin.faces, kin.dim)>>
    /\ UNCHANGED <<kin, search, gvars, pvars, bvars>>

\* the call hcomp(ty, base, faces)
HComp ==
    /\ kin.op = "hcomp"
    /\ kout = <<>>
    /\ kout' = <<hcomp(kin.ty, kin.base, kin.faces)>>
    /\ UNCHANGED <<kin, search, gvars, pvars, bvars>>

KanNext == Comp \/ HComp

(***************************************************************************)
(* Properties of the Kan operations                                        *)
(***************************************************************************)
\* C14: comp(A, a, [], 0).conv(a) is true for every type value A and every
\* base value a.
C14_CompIdentity ==
    (kin.op = "comp" /\ kin.faces = <<>> /\ kin.dim = DZero /\ kout # <<>>) =>
        conv(kout[1], kin.base)

\* C15: hcomp(A, a, faces).conv(comp(A, a, faces, Dim::One)) is true for every
\* type value A, face system and base a.
C15_HCompIsCompAtOne ==
    (kin.op = "hcomp" /\ kout # <<>>) =>
        conv(kout[1], comp(kin.ty, kin.base, kin.faces, DOne))

\* the positions of the faces satisfied at the target dimension
SatisfiedAt(faces, target_dim) ==
    {i \in DOMAIN faces : face_satisfied(faces[i].face, dim_to_env(target_dim))}

\* C16: when at least one face is satisfied at the target dimension, comp
\* returns the value of the earliest satisfied face of the list, whatever
\* the type and whatever later faces say.
C16_CompTakesFirstSatisfiedFace ==
    (kin.op = "comp" /\ kout # <<>> /\ SatisfiedAt(kin.faces, kin.dim) # {}) =>
        LET sat == SatisfiedAt(kin.faces, kin.dim)
            first == CHOOSE i \in sat : \A j \in sat : i <= j
        IN kout[1] = kin.faces[first].value

\* C16 witness: at a Pi type two faces are satisfied, they carry different
\* values, and comp returned the value of the first.
C16_Witness ==
    /\ kin.op = "comp"
    /\ kout # <<>>
    /\ kin.ty.tag = "VPi"
    /\ Cardinality(SatisfiedAt(kin.faces, kin.dim)) = 2
    /\ kin.faces[1].value # kin.faces[2].value
    /\ kout[1] = kin.faces[1].value

(***************************************************************************)
(* ProofBridge (geometry proof_bridge.rs) and ProofPath (line.rs)          *)
(***************************************************************************)
\* the propositions and proof terms handed to the bridge
BridgeProps == {EType(l) : l \in 0 .. MaxLevel}
BridgeTerms == {ELambda(EType(0)), ELambda(EVar(0)), EType(0)}

BCall(op, a, b, result, value) ==
    [op |-> op, a |-> a, b |-> b, result |-> result, value |-> value]

\* ProofBridge::new
BridgeInit ==
    /\ context = <<>>
    /\ geo_points = << >>
    /\ geo_lines = << >>
    /\ bcall = BCall("new", -1, -1, "Ok", EType(0))

\* the type register_line expects of a line's term: Pi(_ : from_prop). to_prop
expected_line_ty(types, from_prop, to_prop) ==
    eval(EPi(from_prop, to_prop), ContextEnv(types))

\* ProofBridge::register_point, called with the point stored under `id`
RegisterPoint(id) ==
    /\ id \in DOMAIN points
    /\ Len(context) < MaxPoints
    /\ LET ty == infer(context, points[id])
       IN IF ty.ok
          THEN /\ geo_points' = (id :> points[id]) @@ geo_points
               /\ context' = ContextExtend(context, ty.ty)
               /\ bcall' = BCall("register_point", id, -1, "Ok", points[id])
          ELSE /\ bcall' = BCall("register_point", id, -1, "ProofCorrespondence", points[id])
               /\ UNCHANGED <<geo_points, context>>
    /\ UNCHANGED geo_lines
    /\ UNCHANGED <<gvars, pvars, kvars>>

\* ProofBridge::register_line, called with the line stored under `l` and its
\* two endpoint points
RegisterLine(l) ==
    /\ l \in DOMAIN lines
    /\ LET line == lines[l]
       IN IF line.from \notin DOMAIN geo_points \/ line.to \notin DOMAIN geo_points
          THEN /\ bcall' = BCall("register_line", l, -1, "ProofCorrespondence", line.proof_term)
               /\ UNCHANGED geo_lines
          ELSE IF check(context, line.proof_term,
                        expected_line_ty(context, geo_points[line.from], geo_points[line.to])) = "Ok"
          THEN /\ geo_lines' = (l :> line.proof_term) @@ geo_lines
               /\ bcall' = BCall("register_line", l, -1, "Ok", line.proof_term)
          ELSE /\ bcall' = BCall("register_line", l, -1, "ProofCorrespondence", line.proof_term)
               /\ UNCHANGED geo_lines
    /\ UNCHANGED <<context, geo_points>>
    /\ UNCHANGED <<gvars, pvars, kvars>>

\* the composition loop of ProofBridge::proof_path_to_term
RECURSIVE compose_registered(_, _, _, _)
compose_registered(L, G, path, composite) ==
    IF path = <<>> THEN [result |-> "Ok", term |-> composite]
    ELSE IF Head(path) \notin DOMAIN L \/ Head(path) \notin DOMAIN G
    THEN [result |-> "ProofCorrespondence", term |-> EType(0)]
    ELSE compose_registered(L, G, Tail(path), EApp(G[Head(path)], composite))

\* ProofBridge::proof_path_to_term
proof_path_to_term(P, L, G, start, path) ==
    IF path = <<>>
    THEN IF start \in DOMAIN P THEN [result |-> "Ok", term |-> P[start]]
         ELSE [result |-> "ProofCorrespondence", term |-> EType(0)]
    ELSE IF Head(path) \notin DOMAIN L \/ Head(path) \notin DOMAIN G
    THEN [result |-> "ProofCorrespondence", term |-> EType(0)]
    ELSE compose_registered(L, G, Tail(path), G[Head(path)])

\* ProofPath::compute_composite_proof over the graph's lines; None is <<>>
RECURSIVE compose_lines(_, _, _)
compose_lines(L, path, composite) ==
    IF path = <<>> THEN <<composite>>
    ELSE IF Head(path) \notin DOMAIN L THEN <<>>
    ELSE compose_lines(L, Tail(path), EApp(L[Head(path)].proof_term, composite))

compute_composite_proof(L, path) ==
    IF path = <<>> THEN <<>>
    ELSE IF Head(path) \notin DOMAIN L THEN <<>>
    ELSE compose_lines(L, Tail(path), L[Head(path)].proof_term)

\* proof_path_to_term on the path find_path returns, as construction_to_proof
\* calls it
ProofPathToTerm(from, to) ==
    /\ from \in DOMAIN points /\ to \in DOMAIN points
    /\ find_path(lines, outgoing, from, to).found
    /\ LET path == find_path(lines, outgoing, from, to).lines
           r == proof_path_to_term(points, lines, geo_lines, from, path)
       IN bcall' = BCall("proof_path_to_term", from, to, r.result, r.term)
    /\ UNCHANGED <<context, geo_points, geo_lines>>
    /\ UNCHANGED <<gvars, pvars, kvars>>

\* the bridge is driven on chain-shaped constructions p0 -> p1 -> p2 ...
BridgeNext ==
    \/ \E prop \in BridgeProps : AddPoint(prop)
    \/ \E from \in PointIds, term \in BridgeTerms :
           next_line_id < BridgeMaxLines /\ AddLine(from, from + 1, term)
    \/ \E id \in PointIds : RegisterPoint(id)
    \/ \E l \in LineIds : RegisterLine(l)
    \/ \E from \in PointIds, to \in PointIds : ProofPathToTerm(from, to)

(***************************************************************************)
(* Properties of the proof bridge                                          *)
(***************************************************************************)
\* C10: for a path of one or more lines, each accepted by register_line, the
\* composite term of proof_path_to_term and of compute_composite_proof checks
\* against the arrow type start.prop -> end.prop.
C10_CompositeIsWellTyped ==
    (/\ bcall.op = "proof_path_to_term"
     /\ bcall.a # bcall.b
     /\ \A l \in Range(find_path(lines, outgoing, bcall.a, bcall.b).lines) : l \in DOMAIN geo_lines) =>
        LET path == find_path(lines, outgoing, bcall.a, bcall.b).lines
            arrow == expected_line_ty(context, points[bcall.a], points[bcall.b])
        IN /\ bcall.result = "Ok"
           /\ check(context, bcall.value, arrow) = "Ok"
           /\ compute_composite_proof(lines, path) = <<bcall.value>>

(***************************************************************************)
(* Tactics: IntroTactic and its ProofBuilder (proof-engine, tactics.rs)    *)
(***************************************************************************)
\* Expr::Pi and Expr::Lambda with the binder name the tactic reads and writes
EPiNamed(name, d, c) == [tag |-> "Pi", name |-> name, domain |-> d, codomain |-> c]
ELambdaNamed(name, b) == [tag |-> "Lambda", name |-> name, body |-> b]

\* Hypothesis::new
Hypothesis_new(name, ty) == [name |-> name, ty |-> ty, body |-> "None"]

\* Goal::new and Goal::add_hypothesis
Goal_new(id, proposition) ==
    [id |-> id, proposition |-> proposition, hypotheses |-> <<>>, name |-> "None"]

Goal_add_hypothesis(goal, hyp) ==
    [goal EXCEPT !.hypotheses = Append(@, hyp)]

RECURSIVE Goal_add_hypotheses(_, _)
\* the loop `for hyp in &goal_state.goal.hypotheses { new_goal.add_hypothesis(..) }`
Goal_add_hypotheses(goal, hyps) ==
    IF hyps = <<>> THEN goal
    ELSE Goal_add_hypotheses(Goal_add_hypothesis(goal, Head(hyps)), Tail(hyps))

\* ProofBuilder::lambda and ProofBuilder::build
ProofBuilder_lambda(name) == [builder_fn |-> "Lambda", name |-> name]

ProofBuilder_identity == [builder_fn |-> "Identity"]
ProofBuilder_apply(term) == [builder_fn |-> "Apply", term |-> term]

ProofBuilder_build(builder, subproofs) ==
    IF builder.builder_fn = "Identity"
    THEN IF Len(subproofs) = 1
         THEN [ok |-> TRUE, expr |-> subproofs[1]]
         ELSE [ok |-> FALSE, error |-> "TacticFailed"]
    ELSE IF builder.builder_fn = "Lambda"
    THEN IF Len(subproofs) = 1
         THEN [ok |-> TRUE, expr |-> ELambdaNamed(builder.name, subproofs[1])]
         ELSE [ok |-> FALSE, error |-> "TacticFailed"]
    ELSE IF builder.builder_fn = "Apply"
    THEN IF Len(subproofs) = 1
         THEN [ok |-> TRUE, expr |-> EApp(builder.term, subproofs[1])]
         ELSE [ok |-> FALSE, error |-> "TacticFailed"]
    ELSE [ok |-> FALSE, error |-> "TacticFailed"]

\* IntroTactic::apply without the loop that copies the goal's hypotheses
IntroTactic_apply_drop_hypotheses(goal) ==
    IF goal.proposition.tag = "Pi"
    THEN [tag |-> "Success",
          subgoals |-> <<Goal_add_hypothesis(Goal_new(0, goal.proposition.codomain),
                             Hypothesis_new(goal.proposition.name, goal.proposition.domain))>>,
          proof_builder |-> ProofBuilder_lambda(goal.proposition.name)]
    ELSE [tag |-> "Failure", msg |-> "intro: goal is not a Pi type"]

\* IntroTactic::apply on goal_state.goal
IntroTactic_apply(goal) ==
    IF goal.proposition.tag = "Pi"
    THEN LET new_goal == Goal_add_hypothesis(Goal_new(0, goal.proposition.codomain),
                             Hypothesis_new(goal.proposition.name, goal.proposition.domain))
         IN [tag |-> "Success",
             subgoals |-> <<Goal_add_hypotheses(new_goal, goal.hypotheses)>>,
             proof_builder |-> ProofBuilder_lambda(goal.proposition.name)]
    ELSE [tag |-> "Failure", msg |-> "intro: goal is not a Pi type"]

\* the goals the tactic is tried on
TacticNames == {"x", "y"}
TacticTypes == {EType(l) : l \in 0 .. MaxLevel}
TacticProps ==
    TacticTypes
    \cup {EVar(0), EApp(EVar(0), EType(0)), EPath(EType(1), EType(0), EType(0))}
    \cup {EPiNamed(n, d, c) : n \in TacticNames, d \in TacticTypes,
                              c \in TacticTypes \cup {EVar(0)}}
    \cup {EPiNamed(n, EType(0), EPiNamed(m, EType(0), EType(0))) : n, m \in TacticNames}
TacticHyps == {Hypothesis_new(n, t) : n \in TacticNames, t \in TacticTypes}
TacticSubproofs == {<<>>, <<EVar(0)>>, <<EType(0)>>, <<EVar(0), EType(0)>>}

TacticInit ==
    /\ \E id \in 0 .. (MaxGoalId - 1), prop \in TacticProps,
          hyps \in SeqsUpTo(TacticHyps, MaxHyps), subproofs \in TacticSubproofs :
           kin = [op |-> "intro",
                  goal |-> Goal_add_hypotheses(Goal_new(id, prop), hyps),
                  subproofs |-> subproofs]
    /\ kout = <<>>

\* tactic.apply(&GoalState::new(goal))
Intro ==
    /\ kin.op = "intro"
    /\ kout = <<>>
    /\ kout' = <<IntroTactic_apply(kin.goal)>>
    /\ UNCHANGED <<gvars, pvars, bvars, kin, search>>

\* proof_builder.build(&subproofs) on the builder of a successful result
Build ==
    /\ kin.op = "intro"
    /\ Len(kout) = 1
    /\ kout[1].tag = "Success"
    /\ kout' = Append(kout, ProofBuilder_build(kout[1].proof_builder, kin.subproofs))
    /\ UNCHANGED <<gvars, pvars, bvars, kin, search>>

TacticNext == Intro \/ Build

\* the number of positions of the sequence s that hold x
Occurrences(s, x) == Cardinality({i \in DOMAIN s : s[i] = x})

to_context(goal) == [i \in DOMAIN goal.hypotheses |-> eval(goal.hypotheses[i].ty, <<>>)]

\* GoalState::new aborts when the evaluation of a hypothesis type aborts
GoalState_new_panics(goal) == \E i \in DOMAIN goal.hypotheses : to_context(goal)[i].tag = "Panic"

TacticFailure(msg) == [tag |-> "Failure", msg |-> msg]
TacticPanic == [tag |-> "Panic"]

\* AssumptionTactic::apply with the hypotheses compared up to conversion
AssumptionTactic_apply_conv(goal) ==
    IF \E i \in DOMAIN goal.hypotheses :
           conv(eval(goal.hypotheses[i].ty, ContextEnv(to_context(goal))),
                eval(goal.proposition, ContextEnv(to_context(goal))))
    THEN [tag |-> "Success", subgoals |-> <<>>, proof_builder |-> ProofBuilder_identity]
    ELSE TacticFailure("assumption: no matching hypothesis found")

\* AssumptionTactic::apply: the Debug renderings of the two expressions are
\* compared, which is equality of the expressions, names included
AssumptionTactic_apply(goal) ==
    IF \E i \in DOMAIN goal.hypotheses : goal.hypotheses[i].ty = goal.proposition
    THEN [tag |-> "Success", subgoals |-> <<>>, proof_builder |-> ProofBuilder_identity]
    ELSE TacticFailure("assumption: no matching hypothesis found")

\* ReflTactic::apply
ReflTactic_apply(goal) ==
    IF goal.proposition.tag = "Path"
    THEN IF goal.proposition.left = goal.proposition.right
         THEN [tag |-> "Success", subgoals |-> <<>>, proof_builder |-> ProofBuilder_identity]
         ELSE TacticFailure("refl: sides of path are not equal")
    ELSE TacticFailure("refl: goal is not a path type")

\* ExactTactic::apply and ApplyTactic::apply of the library take no argument
ExactTactic_apply(goal) == TacticFailure("exact: requires a proof term argument")
ApplyTactic_apply(goal) == TacticFailure("apply: requires a function argument")

\* TacticWithArg::apply_to for exact(term) and apply(term)
TacticWithArg_apply_to(name, term, goal) ==
    LET types == to_context(goal)
    IN IF name = "exact"
       THEN LET expected_ty == eval(goal.proposition, ContextEnv(types))
            IN IF expected_ty.tag = "Panic" THEN TacticPanic
               ELSE IF check(types, term, expected_ty) = "Ok"
               THEN [tag |-> "Success", subgoals |-> <<>>,
                     proof_builder |-> ProofBuilder_identity]
               ELSE TacticFailure("exact: type error")
       ELSE IF name = "apply"
       THEN LET func_ty == infer(types, term)
            IN IF ~func_ty.ok THEN TacticFailure("apply: cannot infer type")
               ELSE IF func_ty.ty.tag = "VPi"
               THEN [tag |-> "Success",
                     subgoals |-> <<Goal_add_hypotheses(
                                      Goal_new(0, normalize(func_ty.ty.domain)),
                                      goal.hypotheses)>>,
                     proof_builder |-> ProofBuilder_apply(term)]
               ELSE TacticFailure("apply: function is not a Pi type")
       ELSE TacticFailure("Unknown tactic or invalid argument")

\* the goals, hypotheses and arguments these tactics are tried on
SmoothPathProp == ESmoothPath(1, EType(1), EType(0), EType(0))
ClosingProps ==
    TacticTypes
    \cup {EPiNamed(n, EType(0), EType(0)) : n \in TacticNames}
    \cup {EPath(EType(1), EType(0), EType(0)), EPath(EType(2), EType(0), EType(1)),
          SmoothPathProp}
ClosingHypTypes == TacticTypes \cup {EPiNamed("x", EType(0), EType(0)), SmoothPathProp}
ClosingHyps == {Hypothesis_new(n, t) : n \in TacticNames, t \in ClosingHypTypes}
ClosingTerms == {EVar(0), EVar(1), EType(0)}
ClosingSubproofs == {<<>>, <<EVar(0)>>}

ClosingInit ==
    /\ \E prop \in ClosingProps, hyps \in SeqsUpTo(ClosingHyps, MaxHyps),
          subproofs \in ClosingSubproofs :
           LET goal == Goal_add_hypotheses(Goal_new(0, prop), hyps)
           IN \/ \E op \in {"assumption", "refl"} :
                     kin = [op |-> op, goal |-> goal, term |-> EType(0),
                            subproofs |-> subproofs]
              \/ \E op \in {"exact", "apply"}, term \in ClosingTerms :
                     kin = [op |-> op, goal |-> goal, term |-> term,
                            subproofs |-> subproofs]
    /\ kout = <<>>

\* AssumptionTactic.apply(&GoalState::new(goal))
Assumption ==
    /\ kin.op = "assumption"
    /\ kout = <<>>
    /\ kout' = <<AssumptionTactic_apply(kin.goal)>>
    /\ UNCHANGED <<gvars, pvars, bvars, kin, search>>

\* ReflTactic.apply(&GoalState::new(goal))
Refl ==
    /\ kin.op = "refl"
    /\ kout = <<>>
    /\ kout' = <<ReflTactic_apply(kin.goal)>>
    /\ UNCHANGED <<gvars, pvars, bvars, kin, search>>

\* TacticWithArg::exact(term).apply_to(&GoalState::new(goal))
Exact ==
    /\ kin.op = "exact"
    /\ kout = <<>>
    /\ kout' = <<TacticWithArg_apply_to("exact", kin.term, kin.goal)>>
    /\ UNCHANGED <<gvars, pvars, bvars, kin, search>>

\* TacticWithArg::apply(term).apply_to(&GoalState::new(goal))
Apply ==
    /\ kin.op = "apply"
    /\ kout = <<>>
    /\ kout' = <<TacticWithArg_apply_to("apply", kin.term, kin.goal)>>
    /\ UNCHANGED <<gvars, pvars, bvars, kin, search>>

\* proof_builder.build(&subproofs) on the builder of a successful result
BuildProof ==
    /\ kin.op \in {"assumption", "refl", "exact", "apply"}
    /\ Len(kout) = 1
    /\ kout[1].tag = "Success"
    /\ kout' = Append(kout, ProofBuilder_build(kout[1].proof_builder, kin.subproofs))
    /\ UNCHANGED <<gvars, pvars, bvars, kin, search>>

ClosingNext == Assumption \/ Refl \/ Exact \/ Apply \/ BuildProof

\* C21: assumption closes the goal with no subgoals exactly when some
\* hypothesis has a type convertible (conv) with the goal proposition, and
\* returns Failure otherwise
C21_AssumptionUpToConv ==
    (kin.op = "assumption" /\ kout # <<>>) =>
        kout[1] = AssumptionTactic_apply_conv(kin.goal)

\* C27: the builder of every successful tactic result returns Ok when it is
\* given exactly one subproof per returned subgoal; a tactic that closes the
\* goal with zero subgoals yields a builder that builds from zero subproofs
C27_BuilderTakesOneSubproofPerSubgoal ==
    (/\ kin.op \in {"intro", "assumption", "refl", "exact", "apply"}
     /\ Len(kout) = 2
     /\ Len(kin.subproofs) = Len(kout[1].subgoals)) => kout[2].ok

(***************************************************************************)
(* ProofSearch (proof-engine, search.rs)                                   *)
(***************************************************************************)
\* Expr::Var with its name, which the Debug rendering of a goal shows
EVarNamed(name, idx) == [tag |-> "Var", name |-> name, idx |-> idx]

\* tactic.apply(&goal_state) for the tactic registered under the given name
Tactic_apply(name, goal) ==
    IF name = "intro" THEN IntroTactic_apply(goal)
    ELSE IF name = "exact" THEN ExactTactic_apply(goal)
    ELSE IF name = "apply" THEN ApplyTactic_apply(goal)
    ELSE IF name = "assumption" THEN AssumptionTactic_apply(goal)
    ELSE ReflTactic_apply(goal)

\* TacticLibrary::list: the keys of a HashMap, in an order the hasher decides.
\* exact and apply always fail, so only the order of the other three matters
TacticOrders ==
    {<<a, b, c, "exact", "apply">> :
        <<a, b, c>> \in {t \in {"intro", "assumption", "refl"} \X {"intro", "assumption", "refl"}
                                 \X {"intro", "assumption", "refl"} :
                            t[1] # t[2] /\ t[1] # t[3] /\ t[2] # t[3]}}

\* SearchNode; Option values are sequences of length at most one
SearchNode(node_goals, proofs, depth, parent, tactic_used) ==
    [goals |-> node_goals, proofs |-> proofs, depth |-> depth,
     parent |-> parent, tactic_used |-> tactic_used]

SearchResult(success, proof, nodes_explored, max_depth_reached, tactic_sequence) ==
    [success |-> success, proof |-> proof, nodes_explored |-> nodes_explored,
     max_depth_reached |-> max_depth_reached, tactic_sequence |-> tactic_sequence]

RECURSIVE collect_tactics(_, _)
\* the loop of extract_tactic_sequence, from the node towards the root
collect_tactics(node, sequence) ==
    IF node.tactic_used = <<>> THEN sequence
    ELSE IF node.parent = <<>> THEN Append(sequence, node.tactic_used[1])
    ELSE collect_tactics(node.parent[1], Append(sequence, node.tactic_used[1]))

extract_tactic_sequence(node) == Reverse(collect_tactics(node, <<>>))

RECURSIVE try_tactics(_, _, _, _)
\* the loop `for tactic_name in self.tactics.list()` of one expansion; the
\* new nodes are pushed at the back of the queue or stack
try_tactics(names, node, container, visited) ==
    IF names = <<>> THEN [container |-> container, visited |-> visited]
    ELSE LET r == Tactic_apply(Head(names), node.goals[1])
         IN IF r.tag = "Success"
            THEN LET new_goals == r.subgoals \o Tail(node.goals)
                     new_node == SearchNode(new_goals, node.proofs, node.depth + 1,
                                            <<node>>, <<Head(names)>>)
                 IN IF new_goals \notin visited
                    THEN try_tactics(Tail(names), node, Append(container, new_node),
                                     visited \cup {new_goals})
                    ELSE try_tactics(Tail(names), node, container, visited)
            ELSE try_tactics(Tail(names), node, container, visited)

\* the locals of breadth_first_search / depth_first_search at the loop head;
\* ids tells whether the loop runs inside iterative_deepening_search, and
\* max_depth is the searcher's own depth limit
SearchLoop(fn, ids, max_depth, order, goal) ==
    [pc |-> "loop", fn |-> fn, ids |-> ids, max_depth |-> max_depth, order |-> order,
     container |-> <<SearchNode(<<goal>>, <<>>, 0, <<>>, <<>>)>>,
     visited |-> {}, nodes_explored |-> 0, max_depth_reached |-> 0]

\* the node the loop takes next: pop_front of the queue, pop of the stack
NextNode == IF search.fn = "bfs" THEN Head(search.container)
            ELSE search.container[Len(search.container)]

RestOfContainer == IF search.fn = "bfs" THEN Tail(search.container)
                   ELSE Pop(search.container)

\* the depth test with the limit itself still expanded
at_depth_limit_exclusive(node, max_depth) == node.depth > max_depth

\* `if node.depth >= self.max_depth { continue; }`
at_depth_limit(node, max_depth) == node.depth >= max_depth

\* the goals and the parameters the search is run on
SearchProps ==
    {EType(0),
     EPiNamed("x", EType(0), EType(0)),
     EPiNamed("x", EType(1), EType(0)),
     EPiNamed("x", EType(0), EPiNamed("y", EType(0), EType(0))),
     EPiNamed("A", EType(0), EPiNamed("x", EVarNamed("A", 0), EVarNamed("A", 0))),
     EPath(EType(1), EType(0), EType(0)),
     EPiNamed("x", EType(0), EPath(EType(1), EType(0), EType(0)))}
SearchHyps ==
    {<<>>, <<Hypothesis_new("h", EType(0))>>,
     <<Hypothesis_new("h", EPiNamed("x", EType(0), EType(0)))>>}
SearchStrategies == {"BreadthFirst", "DepthFirst", "IterativeDeepening", "BestFirst"}

SearchInit ==
    /\ \E prop \in SearchProps, hyps \in SearchHyps, strategy \in SearchStrategies,
          max_depth \in 0 .. MaxSearchDepth :
           kin = [op |-> "search", goal |-> Goal_add_hypotheses(Goal_new(0, prop), hyps),
                  strategy |-> strategy, max_depth |-> max_depth]
    /\ kout = <<>>
    /\ search = [pc |-> "start"]

SearchFrame == <<gvars, pvars, bvars, kin>>

\* ProofSearch::search: the dispatch on the strategy, up to the first loop head
SearchStart ==
    /\ kin.op = "search"
    /\ search.pc = "start"
    /\ IF kin.strategy = "IterativeDeepening" /\ kin.max_depth = 0
       THEN /\ search' = [pc |-> "returned"]
            /\ kout' = <<SearchResult(FALSE, <<>>, 0, kin.max_depth, <<>>)>>
       ELSE /\ \E order \in TacticOrders :
                 search' = SearchLoop(
                     IF kin.strategy \in {"BreadthFirst", "BestFirst"} THEN "bfs" ELSE "dfs",
                     kin.strategy = "IterativeDeepening",
                     IF kin.strategy = "IterativeDeepening" THEN 1 ELSE kin.max_depth,
                     order, kin.goal)
            /\ kout' = kout
    /\ UNCHANGED SearchFrame

\* one iteration of the while loop in which the time budget has not expired
SearchIteration ==
    /\ search.pc = "loop"
    /\ search.container # <<>>
    /\ LET node == NextNode
           rest == RestOfContainer
           nodes_explored == search.nodes_explored + 1
           max_depth_reached == Max2(search.max_depth_reached, node.depth)
       IN IF node.goals = <<>>
          THEN /\ search' = [pc |-> "returned"]
               /\ kout' = <<SearchResult(TRUE,
                                IF node.proofs = <<>> THEN <<>> ELSE <<node.proofs[1]>>,
                                nodes_explored, max_depth_reached,
                                extract_tactic_sequence(node))>>
          ELSE IF at_depth_limit(node, search.max_depth)
          THEN /\ search' = [search EXCEPT !.container = rest,
                                           !.nodes_explored = nodes_explored,
                                           !.max_depth_reached = max_depth_reached]
               /\ kout' = kout
          ELSE IF GoalState_new_panics(node.goals[1])
          THEN /\ search' = [pc |-> "aborted"]
               /\ kout' = kout
          ELSE LET t == try_tactics(search.order, node, rest, search.visited)
               IN /\ search' = [search EXCEPT !.container = t.container,
                                              !.visited = t.visited,
                                              !.nodes_explored = nodes_explored,
                                              !.max_depth_reached = max_depth_reached]
                  /\ kout' = kout
    /\ UNCHANGED SearchFrame

\* start_time.elapsed() > self.max_time: in the loop after a node is taken,
\* or in iterative_deepening_search after an unsuccessful depth-first search
SearchTimeout ==
    /\ search.pc = "loop"
    /\ \/ /\ search.container # <<>>
          /\ kout' = <<SearchResult(FALSE, <<>>, search.nodes_explored + 1,
                                    Max2(search.max_depth_reached, NextNode.depth), <<>>)>>
       \/ /\ search.container = <<>>
          /\ search.ids
          /\ kout' = <<SearchResult(FALSE, <<>>, search.nodes_explored,
                                    search.max_depth_reached, <<>>)>>
    /\ search' = [pc |-> "returned"]
    /\ UNCHANGED SearchFrame

\* the queue or stack is empty: the search returns its negative result, and
\* iterative_deepening_search goes on to the next depth limit with a fresh
\* searcher and library, or returns after the last limit
SearchExhausted ==
    /\ search.pc = "loop"
    /\ search.container = <<>>
    /\ IF ~search.ids
       THEN /\ search' = [pc |-> "returned"]
            /\ kout' = <<SearchResult(FALSE, <<>>, search.nodes_explored,
                                      search.max_depth_reached, <<>>)>>
       ELSE IF search.max_depth < kin.max_depth
       THEN /\ \E order \in TacticOrders :
                 search' = SearchLoop("dfs", TRUE, search.max_depth + 1, order, kin.goal)
            /\ kout' = kout
       ELSE /\ search' = [pc |-> "returned"]
            /\ kout' = <<SearchResult(FALSE, <<>>, 0, kin.max_depth, <<>>)>>
    /\ UNCHANGED SearchFrame

SearchNext == SearchStart \/ SearchIteration \/ SearchTimeout \/ SearchExhausted

\* the loop runs on: every step but the expiry of the time budget is taken
\* when it can be
SearchFairness ==
    WF_vars(SearchStart) /\ WF_vars(SearchIteration) /\ WF_vars(SearchExhausted)

\* C22: every call of search eventually returns, under every strategy and
\* depth limit, also when the time budget never expires
C22_SearchReturns == <>(search.pc = "returned" /\ kout # <<>>)

RECURSIVE Replay(_, _)
\* the goals left after the tactics of the sequence are applied in turn, each
\* to the first open goal; a tactic that fails leaves a marker behind
Replay(open_goals, sequence) ==
    IF sequence = <<>> THEN open_goals
    ELSE IF open_goals = <<>> THEN <<TacticFailure("no goal")>>
    ELSE LET r == Tactic_apply(Head(sequence), open_goals[1])
         IN IF r.tag = "Success"
            THEN Replay(r.subgoals \o Tail(open_goals), Tail(sequence))
            ELSE <<r>>

\* C23: no node at depth >= max_depth is expanded, every result has
\* max_depth_reached <= max_depth, and the tactic sequence of a successful
\* result has at most max_depth tactics and closes all goals when replayed
\* from the initial goal
C23_DepthBudgetRespected ==
    /\ search.pc = "loop" =>
           /\ search.max_depth <= kin.max_depth
           /\ \A i \in DOMAIN search.container :
                  /\ search.container[i].depth <= kin.max_depth
                  /\ search.container[i].parent # <<>> =>
                         search.container[i].parent[1].depth < kin.max_depth
    /\ (kin.op = "search" /\ kout # <<>>) =>
           /\ kout[1].max_depth_reached <= kin.max_depth
           /\ kout[1].success =>
                  /\ Len(kout[1].tactic_sequence) <= kin.max_depth
                  /\ Replay(<<kin.goal>>, kout[1].tactic_sequence) = <<>>

\* a proof has been found at the depth limit itself, after two or more tactics
C23_Witness ==
    /\ kin.op = "search"
    /\ kout # <<>>
    /\ kout[1].success
    /\ kin.max_depth >= 2
    /\ Len(kout[1].tactic_sequence) = kin.max_depth
    /\ kout[1].max_depth_reached = kin.max_depth

\* C24: search never aborts: for every goal the call goes on to return a
\* SearchResult
C24_SearchNeverAborts == search.pc # "aborted"

\* C28: a result with success = true carries the proof term in proof
C28_SuccessCarriesProof ==
    (kin.op = "search" /\ kout # <<>> /\ kout[1].success) => kout[1].proof # <<>>

(***************************************************************************)
(* Goal identifiers (goals.rs with_goal, new_goal_id; the callers that      *)
(* install fresh goals and the subgoals of tactics)                        *)
(***************************************************************************)
\* the propositions of the initial goal and of the goals added later
GoalIdProps == {EType(0), EPiNamed("x", EType(0), EType(0))}

\* ProofState::with_goal(proposition): new(), add_goal(Goal::new(GoalId(0), ..))
\* with its snapshot of the empty state, then next_goal_id = 1
with_goal(proposition) ==
    LET s == save_snapshot(<<>>, <<>>, <<>>, 0)
    IN /\ goals = <<Goal_new(0, proposition)>>
       /\ completed = <<>>
       /\ history = s.history
       /\ history_pos = s.history_pos
       /\ next_goal_id = 1
       /\ ptrace = <<>>
       /\ pre_op = ProofSnapshot(<<>>, <<>>)
       /\ post_op = ProofSnapshot(<<>>, <<>>)

GoalIdInit == \E proposition \in GoalIdProps : with_goal(proposition)

\* ProofState::new_goal_id
NewGoalId ==
    /\ next_goal_id <= MaxGoalId
    /\ next_goal_id' = next_goal_id + 1
    /\ kin' = [op |-> "new_goal_id"]
    /\ kout' = <<next_goal_id>>
    /\ ptrace' = PushTrace(ptrace, "new_goal_id", "Ok")
    /\ UNCHANGED <<goals, completed, history, history_pos, pre_op, post_op>>
    /\ UNCHANGED <<gvars, bvars, search>>

\* the goals a caller holds: a goal built on the id new_goal_id has just
\* returned, and the subgoals IntroTactic returns for the current goal
FreshGoals ==
    IF Called(0).op = "new_goal_id" /\ kout # <<>>
    THEN {Goal_new(kout[1], proposition) : proposition \in GoalIdProps}
    ELSE {}

TacticSubgoals ==
    IF goals # <<>> /\ IntroTactic_apply(Head(goals)).tag = "Success"
    THEN {IntroTactic_apply(Head(goals)).subgoals}
    ELSE {}

GoalIdNext ==
    \/ NewGoalId
    \/ \E goal \in FreshGoals : AddGoal(goal)
    \/ \E subgoals \in TacticSubgoals : AddGoal(subgoals[1])
    \/ \E goal \in FreshGoals : ReplaceGoal(<<goal>>)
    \/ \E subgoals \in TacticSubgoals : ReplaceGoal(subgoals)
    \/ CompleteCurrentGoal
    \/ Undo
    \/ Redo

\* the ids of the open and the completed goals, in order
GoalIdsOfState == [i \in 1 .. Len(goals \o completed) |-> (goals \o completed)[i].id]

\* C29: the open and the completed goals carry pairwise distinct GoalIds, and
\* an id returned by new_goal_id is not the id of a goal already in the state
C29_GoalIdsDistinct ==
    /\ \A i, j \in DOMAIN GoalIdsOfState : i # j => GoalIdsOfState[i] # GoalIdsOfState[j]
    /\ (Called(0).op = "new_goal_id" /\ kout # <<>>) =>
           \A i \in DOMAIN GoalIdsOfState : GoalIdsOfState[i] # kout[1]

(***************************************************************************)
(* Verifier::verify_construction (proof-engine verifier.rs)                *)
(***************************************************************************)
\* a message: its level and the point or line its location names; the order
\* of the messages is the iteration order of the HashMaps and is left out
VerificationMessage(level, about, id) == [level |-> level, about |-> about, id |-> id]

VerificationResult(valid, messages) ==
    [aborted |-> FALSE, valid |-> valid, messages |-> messages]

\* the call does not return: eval has hit `panic!("Unbound variable ..")`
VerifierAbort == [aborted |-> TRUE, valid |-> FALSE, messages |-> {}]

\* Verifier::verify_point, in the empty context of Verifier::new
verify_point(id, proposition) ==
    LET inferred == infer(<<>>, proposition)
    IN IF inferred.ok /\ inferred.ty.tag = "Panic" THEN VerifierAbort
       ELSE IF inferred.ok
       THEN VerificationResult(TRUE, {VerificationMessage("Info", "point", id)})
       ELSE VerificationResult(FALSE, {VerificationMessage("Error", "point", id)})

\* Verifier::verify_line: the expected type Pi(_ : from). to is evaluated in
\* the empty environment before the proof term is checked against it
verify_line(id, proof_term, from, to) ==
    LET expected_type == eval(EPi(from, to), <<>>)
    IN IF expected_type.tag = "Panic" THEN VerifierAbort
       ELSE IF proof_term.tag = "Lambda"
               /\ closure_apply(expected_type.closure,
                                VNeutral(expected_type.domain, NVar(0))).tag = "Panic"
       THEN VerifierAbort
       ELSE IF check(<<>>, proof_term, expected_type) = "Ok"
       THEN VerificationResult(TRUE, {VerificationMessage("Info", "line", id)})
       ELSE VerificationResult(FALSE, {VerificationMessage("Error", "line", id)})

\* Verifier::verify_construction on the graph (P, L, O); order is the order in
\* which Construction::verify walks the points
verify_construction(P, L, O, order) ==
    LET structure == verify(P, L, O, order)
        point_results == {verify_point(id, P[id]) : id \in DOMAIN P}
        line_results ==
            {IF L[id].from \in DOMAIN P /\ L[id].to \in DOMAIN P
             THEN verify_line(id, L[id].proof_term, P[L[id].from], P[L[id].to])
             ELSE VerificationResult(FALSE, {VerificationMessage("Error", "line", id)})
             : id \in DOMAIN L}
        results == point_results \cup line_results
    IN IF \E r \in results : r.aborted THEN VerifierAbort
       ELSE VerificationResult(
                structure = "Ok" /\ \A r \in results : r.valid,
                {VerificationMessage(IF structure = "Ok" THEN "Info" ELSE "Error",
                                     "graph", -1)}
                \cup UNION {r.messages : r \in results})

\* the propositions of the points: a well-typed one and an unbound variable
VerifierProps == {EType(0), EVar(0)}

\* the proof terms of the lines
VerifierTerms == {ELambda(EVar(0)), EVar(0)}

VerifyConstruction ==
    /\ \E order \in KeyOrders(DOMAIN points) :
           /\ kin' = [op |-> "verify_construction", points |-> points, lines |-> lines]
           /\ kout' = <<verify_construction(points, lines, outgoing, order)>>
    /\ UNCHANGED <<gvars, pvars, bvars, search>>

VerifierNext ==
    \/ \E prop \in VerifierProps : AddPoint(prop)
    \/ \E from \in PointIds, to \in PointIds, term \in VerifierTerms :
           next_line_id < GraphMaxLines /\ AddLine(from, to, term)
    \/ VerifyConstruction

\* the points of the verified construction whose proposition infer rejects
IllTypedPoints ==
    {id \in DOMAIN kin.points : ~infer(<<>>, kin.points[id]).ok}

\* C30: verify_construction returns a result for every construction; an
\* ill-typed point gives valid = false with an Error-level message, also when
\* lines start or end at that point
C30_VerifierNeverAborts ==
    (kin.op = "verify_construction" /\ kout # <<>>) =>
        /\ ~kout[1].aborted
        /\ IllTypedPoints # {} =>
               /\ ~kout[1].valid
               /\ \E m \in kout[1].messages : m.level = "Error"

(***************************************************************************)
(* Serialization of a Construction (serde derives; construction.rs,        *)
(* point.rs, line.rs)                                                      *)
(***************************************************************************)
\* Point and Line with the cached type; Option values are sequences of
\* length at most one
Point(id, proposition, ty) == [id |-> id, proposition |-> proposition, ty |-> ty]
Line(id, from, to, proof_term, ty) ==
    [id |-> id, from |-> from, to |-> to, proof_term |-> proof_term, ty |-> ty]

\* Construction { name, graph, target, metadata }
Construction(name, graph, target) ==
    [name |-> name, graph |-> graph, target |-> target,
     metadata |-> [created_at |-> <<>>, modified_at |-> <<>>, author |-> <<>>,
                   tags |-> <<>>, difficulty |-> <<>>]]

\* derive(Serialize): every field is written but the ones marked serde(skip)
serialize_point(p) == [id |-> p.id, proposition |-> p.proposition]
serialize_line(l) == [id |-> l.id, from |-> l.from, to |-> l.to, proof_term |-> l.proof_term]
serialize_graph(g) ==
    [points |-> [id \in DOMAIN g.points |-> serialize_point(g.points[id])],
     lines |-> [id \in DOMAIN g.lines |-> serialize_line(g.lines[id])],
     outgoing |-> g.outgoing, incoming |-> g.incoming,
     next_point_id |-> g.next_point_id, next_line_id |-> g.next_line_id]
serialize(c) ==
    [name |-> c.name, graph |-> serialize_graph(c.graph), target |-> c.target,
     metadata |-> c.metadata]

\* derive(Deserialize): a field marked serde(skip) gets Default::default(),
\* which is None for Option<Value>
deserialize_point(d) == Point(d.id, d.proposition, <<>>)
deserialize_line(d) == Line(d.id, d.from, d.to, d.proof_term, <<>>)
deserialize_graph(d) ==
    [points |-> [id \in DOMAIN d.points |-> deserialize_point(d.points[id])],
     lines |-> [id \in DOMAIN d.lines |-> deserialize_line(d.lines[id])],
     outgoing |-> d.outgoing, incoming |-> d.incoming,
     next_point_id |-> d.next_point_id, next_line_id |-> d.next_line_id]
deserialize(d) ==
    [name |-> d.name, graph |-> deserialize_graph(d.graph), target |-> d.target,
     metadata |-> d.metadata]

\* the cached types a caller may have put on the points and lines it added
CachedTypes == {<<>>, <<VType(0)>>}
SerdeTargets == {<<>>, <<EType(0)>>}

\* the construction over the current graph whose points and lines carry the
\* given cached types: add_point and add_line store the point and line they
\* are given, with only the id overwritten
ConstructionOf(point_ty, line_ty, target) ==
    Construction("Test Proof",
        [points |-> [id \in DOMAIN points |-> Point(id, points[id], point_ty[id])],
         lines |-> [id \in DOMAIN lines |->
                       Line(id, lines[id].from, lines[id].to, lines[id].proof_term,
                            line_ty[id])],
         outgoing |-> outgoing, incoming |-> incoming,
         next_point_id |-> next_point_id, next_line_id |-> next_line_id],
        target)

\* deserialize(serialize(G)) for the construction G built so far
SerdeRoundTrip ==
    /\ \E point_ty \in [DOMAIN points -> CachedTypes],
          line_ty \in [DOMAIN lines -> CachedTypes], target \in SerdeTargets :
           /\ kin' = [op |-> "serde", construction |-> ConstructionOf(point_ty, line_ty, target)]
           /\ kout' = <<deserialize(serialize(ConstructionOf(point_ty, line_ty, target)))>>
    /\ UNCHANGED <<gvars, pvars, bvars, search>>

SerdeNext ==
    \/ \E prop \in GraphProps : AddPoint(prop)
    \/ /\ next_line_id < GraphMaxLines
       /\ \E from \in PointIds, to \in PointIds, term \in GraphTerms : AddLine(from, to, term)
    \/ SerdeRoundTrip

\* C25: deserialising the serialisation of a construction built by add_point
\* and add_line gives a construction equal to it in every field, also when
\* points or lines carry a cached type
C25_SerializationRoundTrip ==
    (kin.op = "serde" /\ kout # <<>>) => kout[1] = kin.construction

(***************************************************************************)
(* Specifications                                                          *)
(***************************************************************************)
\* no search is running
SearchIdle == search = [pc |-> "none"]

\* no kernel call is under test
KernelIdle ==
    /\ kin = [op |-> "none"]
    /\ kout = <<>>
    /\ SearchIdle

Init == GraphInit /\ ProofInit /\ BridgeInit /\ KernelIdle

\* the construction graph under add_point, add_line and its queries
SpecGraph == Init /\ [][GraphNext]_vars
SpecDepth == Init /\ [][DepthNext]_vars

\* the proof state under its mutating operations, undo and redo
SpecProof == Init /\ [][ProofNext]_vars
SpecProofMut == Init /\ [][ProofMutNext]_vars

\* the proof bridge registering the points and lines of a growing graph
SpecBridge == Init /\ [][BridgeNext]_vars

InitTyping == GraphInit /\ ProofInit /\ BridgeInit /\ TypingInit /\ SearchIdle
SpecTyping == InitTyping /\ [][TypingNext]_vars

InitKan == GraphInit /\ ProofInit /\ BridgeInit /\ KanInit /\ SearchIdle
SpecKan == InitKan /\ [][KanNext]_vars

\* the intro tactic and its proof builder on goals drawn in the initial state
InitTactic == GraphInit /\ ProofInit /\ BridgeInit /\ TacticInit /\ SearchIdle
SpecTactic == InitTactic /\ [][TacticNext]_vars


\* the tactics that close a goal or take an argument, and their proof builders
InitClosing == GraphInit /\ ProofInit /\ BridgeInit /\ ClosingInit /\ SearchIdle
SpecClosing == InitClosing /\ [][ClosingNext]_vars

\* a ProofState made by with_goal, then fresh goals and tactic subgoals
InitGoalIds == GraphInit /\ BridgeInit /\ KernelIdle /\ GoalIdInit
SpecGoalIds == InitGoalIds /\ [][GoalIdNext]_vars

\* constructions built by add_point and add_line, then verified
InitVerifier == GraphInit /\ ProofInit /\ BridgeInit /\ KernelIdle
SpecVerifier == InitVerifier /\ [][VerifierNext]_vars

\* ProofSearch::search on the goals drawn in the initial state
InitSearch == GraphInit /\ ProofInit /\ BridgeInit /\ SearchInit
SpecSearch == InitSearch /\ [][SearchNext]_vars /\ SearchFairness

\* a construction built by add_point and add_line, serialised and read back
SpecSerde == Init /\ [][SerdeNext]_vars

====
